---- MODULE Spec2Model ----
(***************************************************************************)
(* A model of chughes87/visuals: the parameter store (Params), the Patch   *)
(* (tick, generator_dirty), the modulators, the presets, the GPU effect    *)
(* chain with its ping-pong pair (PingPong, dispatch_chain) as it is       *)
(* driven by App::render, the input actions of the App, and the redraw     *)
(* and resize handlers of the event loop.                                  *)
(*                                                                         *)
(* Numbers.  An f32 is held as an integer number of thousandths (1.0 is    *)
(* 1000, -0.5 is -500), so that equality of two values is exact, as the    *)
(* f32 comparison of the code is for the finite values the repository      *)
(* uses.  Elapsed time is counted in whole time quanta, and an oscillator  *)
(* frequency in quarter turns per quantum, so that every phase is a whole  *)
(* number of quarter turns, where the sine is 0, 1, 0, -1.                 *)
(***************************************************************************)
EXTENDS Integers, Sequences, FiniteSets, TLC

VARIABLES
    generator,        \* Patch.generator: the generator's kind
    effects,          \* Patch.effects: the ordered effect list
    modulators,       \* Patch.modulators: the ordered modulator list
    params,           \* Patch.params: the parameter store
    last_gen_params,  \* Patch.last_gen_params: None or Some(snapshot)
    pp_current,       \* PingPong.current
    tex,              \* what each image holds: the generator output, ping (A), pong (B)
    encoder,          \* the passes recorded into the frame's command encoder
    presented,        \* what the image handed to presentation held
    op,               \* the operation that acted last
    ret,              \* the value the last generator_dirty() returned
    calls,            \* the number of generator_dirty() calls so far
    atCall,           \* the store at the last generator_dirty() call
    atPrevCall,       \* the store at the call before that one
    ticks,            \* the number of tick() calls so far
    dtSum,            \* the sum of the dt values of those ticks
    lastSet,          \* the last Params::set: its key, its value, the store before
    everSet,          \* the keys written since the store was constructed
    steps,            \* the number of operations so far, where MaxSteps bounds it
    frameIn,          \* PingPong.current when the last frame began
    before,           \* the store before the last modulate call or input action
    applied,          \* the modulator of that call: None or Some(modulator)
    built,            \* the Preset the patch was built from: None or Some(preset)
    other,            \* a second Patch built from the same preset, or None
    otherOps,         \* the number of operations performed on that second Patch
    current_preset_idx, \* App.current_preset_idx
    exiting,          \* event_loop.exit() was called
    redraw,           \* what the last RedrawRequested did: None or Some(record)
    click,            \* the last zoom click and their number: None or Some(record)
    cursor_pos,       \* App.cursor_pos, in pixels
    drag_start,       \* App.drag_start: None or Some(position)
    released,         \* what the last on_mouse_release found and returned
    handled           \* the last handle_action call: None or Some(record)

vars == << generator, effects, modulators, params, last_gen_params, pp_current,
           tex, encoder, presented, op, ret, calls, atCall, atPrevCall, ticks,
           dtSum, lastSet, everSet, steps, frameIn, before, applied, built,
           other, otherOps, current_preset_idx, exiting, redraw, click,
           cursor_pos, drag_start, released, handled >>

patchVars == << generator, effects, modulators >>

gpuVars == << pp_current, tex, encoder, presented, frameIn >>

inputVars == << cursor_pos, drag_start, released, handled >>

appVars == << before, applied, built, other, otherOps, current_preset_idx,
             exiting, redraw, click, inputVars >>

(***************************************************************************)
(* Bounds of the model.                                                    *)
(***************************************************************************)
\* The number of operations in a run.
MaxSteps == 4

(***************************************************************************)
(* Option<T>: None is the empty tuple, Some(x) the one-element tuple.      *)
(***************************************************************************)
None == << >>

Some(x) == << x >>

(***************************************************************************)
(* Params                                                                  *)
(***************************************************************************)
Keys == { "julia_cx", "julia_cy", "hue_shift_amount", "ripple_amplitude",
          "brightness_amount" }

\* The HashMap<String, f32> with no entry.
NoFields == [k \in {} |-> 0]

Params_default ==
    [ fields |-> NoFields, time |-> 0, frame |-> 0, zoom |-> 1000,
      center_x |-> -500, center_y |-> 0, max_iter |-> 100,
      mouse_x |-> 0, mouse_y |-> 0 ]

\* A mutant of get: an absent key reads as 1.0.
get_default_one(p, key) ==
    IF key \in DOMAIN p.fields THEN p.fields[key] ELSE 1000

\* Params::get: *self.fields.get(key).unwrap_or(&0.0)
get(p, key) ==
    IF key \in DOMAIN p.fields THEN p.fields[key] ELSE 0

\* A mutant of set: the map is replaced by the one entry.
set_clearing(p, key, value) ==
    [p EXCEPT !.fields = [k \in {key} |-> value]]

\* Params::set: self.fields.insert(key.into(), value)
set(p, key, value) ==
    [p EXCEPT !.fields =
        [k \in (DOMAIN p.fields) \cup {key} |->
            IF k = key THEN value ELSE p.fields[k]]]

(***************************************************************************)
(* Generators                                                              *)
(***************************************************************************)
GeneratorKind == { "Mandelbrot", "Julia", "BurningShip", "NoiseField" }

\* A mutant of gen_param_keys: the Julia generator also declares the key
\* its preset's hue effect reads.
gen_param_keys_with_hue(g) ==
    IF g = "Julia" THEN << "julia_cx", "julia_cy", "hue_shift_amount" >>
    ELSE << >>

\* Generator::gen_param_keys of MandelbrotGen, JuliaGen, BurningShipGen,
\* NoiseFieldGen.
gen_param_keys(g) ==
    IF g = "Julia" THEN << "julia_cx", "julia_cy" >> ELSE << >>

(***************************************************************************)
(* Modulators                                                              *)
(***************************************************************************)
\* sin at a whole number of quarter turns.
SineQuarter(q) ==
    CASE q % 4 = 0 -> 0
      [] q % 4 = 1 -> 1000
      [] q % 4 = 2 -> 0
      [] OTHER     -> -1000

\* Lfo::modulate, Waveform::Sine:
\*   phase = time * frequency * TAU; raw = phase.sin();
\*   params.set(target, offset + raw * amplitude)
Lfo_modulate(m, p) ==
    LET raw == SineQuarter(p.time * m.frequency)
    IN  set(p, m.target, m.offset + (raw * m.amplitude) \div 1000)

\* A mutant of MouseModulator::modulate: the two axes are exchanged.
MouseModulator_modulate_swapped(m, p) ==
    LET p1 == IF m.target_x # None
              THEN set(p, m.target_x[1], (p.mouse_y * 2000) \div 1000 - 1000)
              ELSE p
    IN  IF m.target_y # None
        THEN set(p1, m.target_y[1], (p1.mouse_x * 2000) \div 1000 - 1000)
        ELSE p1

\* MouseModulator::modulate
MouseModulator_modulate(m, p) ==
    LET p1 == IF m.target_x # None
              THEN set(p, m.target_x[1], (p.mouse_x * 2000) \div 1000 - 1000)
              ELSE p
    IN  IF m.target_y # None
        THEN set(p1, m.target_y[1], (p1.mouse_y * 2000) \div 1000 - 1000)
        ELSE p1

RECURSIVE modulate(_, _)
RECURSIVE ModMatrix_routes(_, _, _)
RECURSIVE ModMatrix_routes_unscaled(_, _, _)
RECURSIVE ModMatrix_routes_shared(_, _, _)
RECURSIVE ModMatrix_routes_unhalved(_, _, _)

\* A mutant of the loop: the raw output is written as it is.
ModMatrix_routes_unscaled(routes, i, p) ==
    IF i > Len(routes) THEN p
    ELSE LET route == routes[i]
             tmp   == modulate(route.modulator, p)
             raw   == get(tmp, route.target)
         IN  ModMatrix_routes_unscaled(routes, i + 1, set(p, route.target, raw))

\* A mutant of the loop: the inner modulator runs on the store itself.
ModMatrix_routes_shared(routes, i, p) ==
    IF i > Len(routes) THEN p
    ELSE LET route  == routes[i]
             tmp    == modulate(route.modulator, p)
             raw    == get(tmp, route.target)
             scaled == route.min
                       + (((raw * 500) \div 1000 + 500) * (route.max - route.min))
                         \div 1000
         IN  ModMatrix_routes_shared(routes, i + 1,
                                     set(tmp, route.target, scaled))

\* A mutant of the loop: the raw output is not halved before the shift.
ModMatrix_routes_unhalved(routes, i, p) ==
    IF i > Len(routes) THEN p
    ELSE LET route  == routes[i]
             tmp    == modulate(route.modulator, p)
             raw    == get(tmp, route.target)
             scaled == route.min
                       + ((raw + 500) * (route.max - route.min)) \div 1000
         IN  ModMatrix_routes_unhalved(routes, i + 1,
                                       set(p, route.target, scaled))

\* The loop of ModMatrix::modulate from route i on.
ModMatrix_routes(routes, i, p) ==
    IF i > Len(routes) THEN p
    ELSE LET route  == routes[i]
             tmp    == modulate(route.modulator, p)
             raw    == get(tmp, route.target)
             scaled == route.min
                       + (((raw * 500) \div 1000 + 500) * (route.max - route.min))
                         \div 1000
         IN  ModMatrix_routes(routes, i + 1, set(p, route.target, scaled))

\* Modulator::modulate, by the modulator's type.
modulate(m, p) ==
    CASE m.type = "Lfo"            -> Lfo_modulate(m, p)
      [] m.type = "MouseModulator" -> MouseModulator_modulate(m, p)
      [] m.type = "ModMatrix"      -> ModMatrix_routes(m.routes, 1, p)

\* The keys a modulator writes in the store it is applied to.
RECURSIVE ModTargets(_)
ModTargets(m) ==
    CASE m.type = "Lfo"            -> { m.target }
      [] m.type = "MouseModulator" ->
            { m.target_x[i] : i \in DOMAIN m.target_x }
            \cup { m.target_y[i] : i \in DOMAIN m.target_y }
      [] m.type = "ModMatrix"      ->
            { m.routes[i].target : i \in DOMAIN m.routes }

Lfo(target, frequency, amplitude, offset) ==
    [ type |-> "Lfo", target |-> target, waveform |-> "Sine",
      frequency |-> frequency, amplitude |-> amplitude, offset |-> offset ]

MouseModulator(target_x, target_y) ==
    [ type |-> "MouseModulator", target_x |-> target_x, target_y |-> target_y ]

Route(m, target, min, max) ==
    [ modulator |-> m, target |-> target, min |-> min, max |-> max ]

ModMatrix(routes) == [ type |-> "ModMatrix", routes |-> routes ]

(***************************************************************************)
(* Effects                                                                 *)
(***************************************************************************)
ColorMapEffect(scheme) == [ type |-> "ColorMap", scheme |-> scheme ]

HueShiftEffect(key) == [ type |-> "HueShift", key |-> key ]

RippleEffect(frequency, amplitude_key, speed) ==
    [ type |-> "Ripple", frequency |-> frequency,
      amplitude_key |-> amplitude_key, speed |-> speed ]

EchoEffect(layers, offset, decay) ==
    [ type |-> "Echo", layers |-> layers, offset |-> offset, decay |-> decay ]

MotionBlurEffect(opacity) == [ type |-> "MotionBlur", opacity |-> opacity ]

BrightnessContrastEffect(brightness_key, contrast) ==
    [ type |-> "BrightnessContrast", brightness_key |-> brightness_key,
      contrast |-> contrast ]

\* Effect::kind(&self, params): the descriptor resolved against the store.
Effect_kind(e, p) ==
    CASE e.type = "ColorMap" -> [ type |-> "ColorMap", scheme |-> e.scheme ]
      [] e.type = "HueShift" -> [ type |-> "HueShift", amount |-> get(p, e.key) ]
      [] e.type = "Ripple"   ->
            [ type |-> "Ripple", frequency |-> e.frequency,
              amplitude |-> get(p, e.amplitude_key), speed |-> e.speed ]
      [] e.type = "Echo"     ->
            [ type |-> "Echo", layers |-> e.layers, offset |-> e.offset,
              decay |-> e.decay ]
      [] e.type = "MotionBlur" -> [ type |-> "MotionBlur", opacity |-> e.opacity ]
      [] e.type = "BrightnessContrast" ->
            [ type |-> "BrightnessContrast",
              brightness |-> get(p, e.brightness_key), contrast |-> e.contrast ]

(***************************************************************************)
(* Patch                                                                   *)
(***************************************************************************)
\* A mutant of add_effect: every effect is put in front of the list.
Patch_effects_in_front(g, p, es, ms) ==
    [ generator |-> g, params |-> p,
      effects |-> [ i \in 1..Len(es) |-> es[Len(es) + 1 - i] ],
      modulators |-> ms ]

\* Patch::new followed by add_effect / add_modulator calls.
Patch(g, p, es, ms) ==
    [ generator |-> g, params |-> p, effects |-> es, modulators |-> ms ]

RECURSIVE run_modulators(_, _, _)
RECURSIVE run_modulators_reversed(_, _, _)
\* A mutant of the loop: the modulators are applied from the last to the
\* first.
run_modulators_reversed(ms, i, p) ==
    IF i > Len(ms) THEN p
    ELSE modulate(ms[i], run_modulators_reversed(ms, i + 1, p))

\* for m in &self.modulators { m.modulate(&mut self.params) }, from i on.
run_modulators(ms, i, p) ==
    IF i > Len(ms) THEN p
    ELSE run_modulators(ms, i + 1, modulate(ms[i], p))

\* A mutant of tick: the modulators run before time and frame advance.
tick_modulators_first(ms, p, dt) ==
    LET p1 == run_modulators(ms, 1, p)
    IN  [p1 EXCEPT !.time = @ + dt, !.frame = @ + 1]

\* A mutant of tick: the frame counter is left alone.
tick_no_frame(ms, p, dt) ==
    run_modulators(ms, 1, [p EXCEPT !.time = @ + dt])

\* Patch::tick
tick(ms, p, dt) ==
    run_modulators(ms, 1, [p EXCEPT !.time = @ + dt, !.frame = @ + 1])

\* max_iter as f32: exact for every count below 2^24.
as_f32(n) == n * 1000

\* A mutant of the snapshot: the structural values are left out.
snapshot_no_structural(g, p) ==
    [ i \in 1..Len(gen_param_keys(g)) |->
        << gen_param_keys(g)[i], get(p, gen_param_keys(g)[i]) >> ]

\* A mutant of the snapshot: elapsed time is part of it.
snapshot_with_time(g, p) ==
    [ i \in 1..Len(gen_param_keys(g)) |->
        << gen_param_keys(g)[i], get(p, gen_param_keys(g)[i]) >> ]
    \o << << "zoom", p.zoom >>, << "center_x", p.center_x >>,
          << "center_y", p.center_y >>, << "max_iter", as_f32(p.max_iter) >>,
          << "time", p.time >> >>

\* The vector `full` of generator_dirty: the declared keys with their
\* values, then zoom, center_x, center_y, max_iter.
gen_snapshot(g, p) ==
    [ i \in 1..Len(gen_param_keys(g)) |->
        << gen_param_keys(g)[i], get(p, gen_param_keys(g)[i]) >> ]
    \o << << "zoom", p.zoom >>, << "center_x", p.center_x >>,
          << "center_y", p.center_y >>, << "max_iter", as_f32(p.max_iter) >> >>

\* generator_dirty: dirty = self.last_gen_params.as_deref() != Some(&full)
dirty(g, p, last) == last # Some(gen_snapshot(g, p))

\* A mutant of the cache update: the cache is never filled.
cache_never_stored(g, p, last) == last

\* A mutant of the cache update: the cache is filled once and then kept.
cache_first_only(g, p, last) ==
    IF last = None THEN Some(gen_snapshot(g, p)) ELSE last

\* generator_dirty: if dirty { self.last_gen_params = Some(full) }
cache_after(g, p, last) ==
    IF dirty(g, p, last) THEN Some(gen_snapshot(g, p)) ELSE last

(***************************************************************************)
(* Presets                                                                 *)
(***************************************************************************)
Preset_ALL ==
    << "ClassicMandelbrot", "PsychedelicJulia", "TrippyMandelbrot",
       "BurningShipTrails", "NoiseField" >>

\* Preset::build.  TAU is 6283 thousandths, 40/255 is 157, 20/255 is 78;
\* with a time quantum of 2.5 s the oscillators of 0.5 and 0.3 Hz advance 5
\* and 3 quarter turns per quantum; the time of NoiseField, whose one
\* oscillator is of 0.2 Hz, is counted in quanta of 1.25 s, a quarter turn.
build(preset) ==
    CASE preset = "ClassicMandelbrot" ->
            Patch("Mandelbrot",
                  [Params_default EXCEPT !.center_x = -500, !.center_y = 0,
                                         !.zoom = 1000, !.max_iter = 100],
                  << ColorMapEffect("Classic") >>,
                  << >>)
      [] preset = "PsychedelicJulia" ->
            Patch("Julia",
                  set(set(set([Params_default EXCEPT !.center_x = 0,
                                   !.center_y = 0, !.zoom = 1000,
                                   !.max_iter = 100],
                              "julia_cx", -700),
                          "julia_cy", 270),
                      "hue_shift_amount", 0),
                  << ColorMapEffect("Psychedelic"),
                     HueShiftEffect("hue_shift_amount") >>,
                  << ModMatrix(<< Route(Lfo("hue_shift_amount", 5, 1000, 0),
                                        "hue_shift_amount", 0, 6283) >>) >>)
      [] preset = "TrippyMandelbrot" ->
            Patch("Mandelbrot",
                  set([Params_default EXCEPT !.center_x = -500, !.center_y = 0,
                                             !.zoom = 1000, !.max_iter = 100],
                      "ripple_amplitude", 10000),
                  << ColorMapEffect("Ocean"),
                     RippleEffect(50, "ripple_amplitude", 2000),
                     EchoEffect(3, 5000, 2000) >>,
                  << ModMatrix(<< Route(Lfo("ripple_amplitude", 3, 1000, 0),
                                        "ripple_amplitude", 5000, 15000) >>) >>)
      [] preset = "BurningShipTrails" ->
            Patch("BurningShip",
                  [Params_default EXCEPT !.center_x = -500, !.center_y = -500,
                                         !.zoom = 1000, !.max_iter = 100],
                  << ColorMapEffect("Fire"), MotionBlurEffect(150) >>,
                  << >>)
      [] preset = "NoiseField" ->
            Patch("NoiseField",
                  set(Params_default, "brightness_amount", 78),
                  << ColorMapEffect("Psychedelic"),
                     BrightnessContrastEffect("brightness_amount", 1500) >>,
                  << ModMatrix(<< Route(Lfo("brightness_amount", 1, 1000, 0),
                                        "brightness_amount", 0, 157) >>) >>)

\* The preset whose build() gives the patch, if there is one.
PresetOf(patch) ==
    IF \E i \in DOMAIN Preset_ALL : build(Preset_ALL[i]) = patch
    THEN Some(Preset_ALL[CHOOSE i \in DOMAIN Preset_ALL :
                            build(Preset_ALL[i]) = patch])
    ELSE None

(***************************************************************************)
(* The patches a run starts from: every preset, and patches put together   *)
(* with Patch::new and add_modulator as the tests of patch.rs do.          *)
(***************************************************************************)
BuiltPatches ==
    { build(Preset_ALL[i]) : i \in DOMAIN Preset_ALL }
    \cup { Patch("Julia", Params_default, << >>, << >>),
           Patch("Julia", Params_default, << >>,
                 << Lfo("julia_cx", 1, 1000, 0) >>),
           Patch("NoiseField", Params_default, << >>,
                 << Lfo("hue_shift_amount", 1, 1000, 0),
                    Lfo("brightness_amount", 3, 1000, 0) >>) }

\* The values a direct edit of a field or a Params::set call gives.
DtVals == { 0, 1, 2 }

ZoomVals == { 1000, 3500 }

CenterVals == { -500, 250 }

IterVals == { 100, 500 }

SetKeys == { "julia_cx", "hue_shift_amount" }

SetVals == { 0, 420 }

RECURSIVE AllTargets(_, _)
\* The keys the modulators from i on write.
AllTargets(ms, i) ==
    IF i > Len(ms) THEN {} ELSE ModTargets(ms[i]) \cup AllTargets(ms, i + 1)

\* An image no pass has written yet.
Blank == [ frame |-> 0, stages |-> << >> ]

(***************************************************************************)
(* The state after construction.                                           *)
(***************************************************************************)
InitGpu ==
    /\ pp_current = FALSE
    /\ tex = [ t \in { "gen", "A", "B" } |-> Blank ]
    /\ encoder = << >>
    /\ presented = None
    /\ frameIn = FALSE

InitFrom(patch) ==
    /\ generator = patch.generator
    /\ effects = patch.effects
    /\ modulators = patch.modulators
    /\ params = patch.params
    /\ last_gen_params = None
    /\ op = "new"
    /\ ret = FALSE
    /\ calls = 0
    /\ atCall = None
    /\ atPrevCall = None
    /\ ticks = 0
    /\ dtSum = 0
    /\ lastSet = None
    /\ everSet = DOMAIN patch.params.fields
    /\ steps = 0
    /\ before = None
    /\ applied = None
    /\ built = PresetOf(patch)

\* There is one Patch only.
InitOne ==
    /\ other = None
    /\ otherOps = 0

\* App::new, but for its patch and its GPU objects.
InitApp ==
    /\ current_preset_idx = 0
    /\ exiting = FALSE
    /\ redraw = None
    /\ click = None
    /\ cursor_pos = << 0, 0 >>
    /\ drag_start = None
    /\ released = None
    /\ handled = None

Init ==
    /\ \E patch \in BuiltPatches : InitFrom(patch)
    /\ InitGpu
    /\ InitOne
    /\ InitApp

(***************************************************************************)
(* The operations of a Patch and of its store.                             *)
(***************************************************************************)
\* patch.tick(dt)
Tick(dt) ==
    /\ steps < MaxSteps
    /\ params' = tick(modulators, params, dt)
    /\ steps' = steps + 1
    /\ ticks' = ticks + 1
    /\ dtSum' = dtSum + dt
    /\ everSet' = everSet \cup AllTargets(modulators, 1)
    /\ op' = "tick"
    /\ UNCHANGED << patchVars, appVars, gpuVars, last_gen_params, ret, calls,
                    atCall, atPrevCall, lastSet >>

\* patch.generator_dirty()
GeneratorDirty ==
    /\ steps < MaxSteps
    /\ steps' = steps + 1
    /\ ret' = dirty(generator, params, last_gen_params)
    /\ last_gen_params' = cache_after(generator, params, last_gen_params)
    /\ calls' = calls + 1
    /\ atPrevCall' = atCall
    /\ atCall' = Some(params)
    /\ op' = "generator_dirty"
    /\ UNCHANGED << patchVars, appVars, gpuVars, params, ticks, dtSum,
                    lastSet, everSet >>

\* patch.params.zoom = v
EditZoom(v) ==
    /\ steps < MaxSteps
    /\ v # params.zoom
    /\ params' = [params EXCEPT !.zoom = v]
    /\ steps' = steps + 1
    /\ op' = "edit"
    /\ UNCHANGED << patchVars, appVars, gpuVars, last_gen_params, ret, calls,
                    atCall, atPrevCall, ticks, dtSum, lastSet, everSet >>

\* patch.params.center_x = v
EditCenterX(v) ==
    /\ steps < MaxSteps
    /\ v # params.center_x
    /\ params' = [params EXCEPT !.center_x = v]
    /\ steps' = steps + 1
    /\ op' = "edit"
    /\ UNCHANGED << patchVars, appVars, gpuVars, last_gen_params, ret, calls,
                    atCall, atPrevCall, ticks, dtSum, lastSet, everSet >>

\* patch.params.center_y = v
EditCenterY(v) ==
    /\ steps < MaxSteps
    /\ v # params.center_y
    /\ params' = [params EXCEPT !.center_y = v]
    /\ steps' = steps + 1
    /\ op' = "edit"
    /\ UNCHANGED << patchVars, appVars, gpuVars, last_gen_params, ret, calls,
                    atCall, atPrevCall, ticks, dtSum, lastSet, everSet >>

\* patch.params.max_iter = v
EditMaxIter(v) ==
    /\ steps < MaxSteps
    /\ v # params.max_iter
    /\ params' = [params EXCEPT !.max_iter = v]
    /\ steps' = steps + 1
    /\ op' = "edit"
    /\ UNCHANGED << patchVars, appVars, gpuVars, last_gen_params, ret, calls,
                    atCall, atPrevCall, ticks, dtSum, lastSet, everSet >>

\* patch.params.set(key, value)
Set(key, value) ==
    /\ steps < MaxSteps
    /\ params' = set(params, key, value)
    /\ lastSet' = Some([ key |-> key, value |-> value, before |-> params ])
    /\ everSet' = everSet \cup { key }
    /\ steps' = steps + 1
    /\ op' = "set"
    /\ UNCHANGED << patchVars, appVars, gpuVars, last_gen_params, ret, calls,
                    atCall, atPrevCall, ticks, dtSum >>

Next ==
    \/ \E dt \in DtVals : Tick(dt)
    \/ GeneratorDirty
    \/ \E v \in ZoomVals : EditZoom(v)
    \/ \E v \in CenterVals : EditCenterX(v)
    \/ \E v \in CenterVals : EditCenterY(v)
    \/ \E v \in IterVals : EditMaxIter(v)
    \/ \E key \in SetKeys, value \in SetVals : Set(key, value)

Spec == Init /\ [][Next]_vars

(***************************************************************************)
(* Properties of the presets.                                              *)
(***************************************************************************)
\* The effects of the patch, each by its type and, for a colour map, its
\* scheme.
EffectNames ==
    [ i \in 1..Len(effects) |->
        IF effects[i].type = "ColorMap"
        THEN << "ColorMap", effects[i].scheme >>
        ELSE << effects[i].type >> ]

\* C19: a patch built from a preset has the preset's generator, effects in
\* order and number of modulators, and keeps them, with the modulator list,
\* through every tick and generator_dirty call.
C19_PresetComposition ==
    built # None =>
        /\ built[1] = "ClassicMandelbrot" =>
              /\ generator = "Mandelbrot"
              /\ EffectNames = << << "ColorMap", "Classic" >> >>
              /\ Len(modulators) = 0
        /\ built[1] = "PsychedelicJulia" =>
              /\ generator = "Julia"
              /\ EffectNames = << << "ColorMap", "Psychedelic" >>,
                                  << "HueShift" >> >>
              /\ Len(modulators) = 1
        /\ built[1] = "TrippyMandelbrot" =>
              /\ generator = "Mandelbrot"
              /\ EffectNames = << << "ColorMap", "Ocean" >>, << "Ripple" >>,
                                  << "Echo" >> >>
              /\ Len(modulators) = 1
        /\ built[1] = "BurningShipTrails" =>
              /\ generator = "BurningShip"
              /\ EffectNames = << << "ColorMap", "Fire" >>, << "MotionBlur" >> >>
              /\ Len(modulators) = 0
        /\ built[1] = "NoiseField" =>
              /\ generator = "NoiseField"
              /\ EffectNames = << << "ColorMap", "Psychedelic" >>,
                                  << "BrightnessContrast" >> >>
              /\ Len(modulators) = 1
        /\ modulators = build(built[1]).modulators
        /\ effects = build(built[1]).effects
        /\ built[1] \in { Preset_ALL[i] : i \in DOMAIN Preset_ALL }

C19_Witness ==
    /\ built = Some("TrippyMandelbrot")
    /\ ticks >= 2
    /\ calls >= 1
    /\ op = "generator_dirty"

\* C20: in a patch built from a preset with a modulator the modulated key
\* stays in its route's range through every tick: hue_shift_amount in
\* [0, TAU], ripple_amplitude in [5, 15], brightness_amount in [0, 40/255].
C20_PresetKeysStayInRange ==
    /\ built = Some("PsychedelicJulia") =>
          /\ 0 <= get(params, "hue_shift_amount")
          /\ get(params, "hue_shift_amount") <= 6283
    /\ built = Some("TrippyMandelbrot") =>
          /\ 5000 <= get(params, "ripple_amplitude")
          /\ get(params, "ripple_amplitude") <= 15000
    /\ built = Some("NoiseField") =>
          /\ 0 <= get(params, "brightness_amount")
          /\ get(params, "brightness_amount") <= 157

C20_Witness ==
    /\ built = Some("TrippyMandelbrot")
    /\ op = "tick"
    /\ ticks >= 2
    /\ get(params, "ripple_amplitude") = 15000

(***************************************************************************)
(* Properties of generator_dirty.                                          *)
(***************************************************************************)
\* The two stores agree in everything but elapsed time and frame counter.
SameButTime(old, new) ==
    [new EXCEPT !.time = old.time, !.frame = old.frame] = old

\* A structural field, or the value of a key the generator declares,
\* differs between the two stores.
GenRelevantChanged(g, old, new) ==
    \/ old.zoom # new.zoom
    \/ old.center_x # new.center_x
    \/ old.center_y # new.center_y
    \/ old.max_iter # new.max_iter
    \/ \E i \in DOMAIN gen_param_keys(g) :
          get(old, gen_param_keys(g)[i]) # get(new, gen_param_keys(g)[i])

\* C1: on a newly constructed Patch the first generator_dirty() returns
\* true, and a second call with the store as it was at the first returns
\* false.
C1_FirstCallDirtySecondClean ==
    /\ calls = 1 => ret = TRUE
    /\ (calls = 2 /\ atCall = atPrevCall) => ret = FALSE

C1_Witness == calls = 2 /\ atCall = atPrevCall /\ op = "generator_dirty"

\* C2: when zoom, center_x, center_y, max_iter or the value of a key the
\* generator declares differs from what it was at the previous
\* generator_dirty() call, the call returns true.
C2_RelevantChangeIsDirty ==
    (calls >= 2 /\ GenRelevantChanged(generator, atPrevCall[1], atCall[1]))
        => ret = TRUE

C2_Witness ==
    /\ calls >= 2
    /\ op = "generator_dirty"
    /\ SameButTime(atPrevCall[1],
                   [atCall[1] EXCEPT !.fields = atPrevCall[1].fields])
    /\ get(atPrevCall[1], "julia_cx") # get(atCall[1], "julia_cx")
    /\ generator = "Julia"

\* C3: when only elapsed time and the frame counter differ from what they
\* were at the previous generator_dirty() call, and the generator does not
\* declare time as a key, the call returns false.
C3_TimeAloneIsClean ==
    ( /\ calls >= 2
      /\ SameButTime(atPrevCall[1], atCall[1])
      /\ \A i \in DOMAIN gen_param_keys(generator) :
            gen_param_keys(generator)[i] # "time" )
        => ret = FALSE

C3_Witness ==
    /\ calls >= 2
    /\ op = "generator_dirty"
    /\ SameButTime(atPrevCall[1], atCall[1])
    /\ atCall[1].time # atPrevCall[1].time
    /\ atCall[1].frame # atPrevCall[1].frame

\* C23: after every generator_dirty() call, whatever edits, ticks and calls
\* came before, the cache holds the snapshot (declared keys, then zoom,
\* center_x, center_y, max_iter) of the store at that call; so from the
\* second call on the result is true exactly when a relevant value differs
\* between the store at the previous call and the store at this one, and a
\* value changed and changed back between two calls gives false.
C23_CacheIsSnapshotAtCall ==
    /\ calls >= 1 =>
          last_gen_params = Some(gen_snapshot(generator, atCall[1]))
    /\ calls >= 2 =>
          (ret = TRUE <=> GenRelevantChanged(generator, atPrevCall[1], atCall[1]))

\* Two calls with two edits and no tick: among the ways to get here is a
\* call, an edit, the edit undone, and the second call, which returns false.
C23_Witness ==
    /\ op = "generator_dirty"
    /\ calls = 2
    /\ steps = 4
    /\ ticks = 0
    /\ lastSet = None
    /\ atCall = atPrevCall
    /\ ret = FALSE

\* zoom, centre and iteration bound are the same in the two stores.
SameView(old, new) ==
    /\ old.zoom = new.zoom
    /\ old.center_x = new.center_x
    /\ old.center_y = new.center_y
    /\ old.max_iter = new.max_iter

C4_GetSetRoundTrip ==
    /\ \A k \in (Keys \cup { "nonexistent" }) \ everSet : get(params, k) = 0
    /\ op = "set" =>
          /\ get(params, lastSet[1].key) = lastSet[1].value
          /\ \A k \in (Keys \cup { "nonexistent" }) \ { lastSet[1].key } :
                /\ get(params, k) = get(lastSet[1].before, k)
                /\ k \in DOMAIN params.fields
                      <=> k \in DOMAIN lastSet[1].before.fields

C4_Witness ==
    /\ op = "set"
    /\ lastSet[1].key \in DOMAIN lastSet[1].before.fields
    /\ get(lastSet[1].before, lastSet[1].key) # lastSet[1].value
    /\ lastSet[1].value # 0
    /\ \E k \in DOMAIN params.fields : k # lastSet[1].key /\ params.fields[k] # 0
    /\ \E k \in Keys : k \notin everSet

(***************************************************************************)
(* Properties of tick.                                                     *)
(***************************************************************************)
\* What an oscillator writes when the elapsed time it reads is t.
LfoAt(m, t) == m.offset + (SineQuarter(t * m.frequency) * m.amplitude) \div 1000

\* What a route writes when its inner oscillator reads the elapsed time t.
RouteAt(r, t) ==
    r.min + (((LfoAt(r.modulator, t) * 500) \div 1000 + 500) * (r.max - r.min))
            \div 1000

\* C5: after n ticks of a freshly built patch the frame counter is n and
\* elapsed time is the sum of the dt values, and what every modulator wrote
\* in the last tick is its output at the time that includes that tick's dt.
C5_TickAdvancesBeforeModulators ==
    /\ params.frame = ticks
    /\ params.time = dtSum
    /\ op = "tick" =>
          \A i \in DOMAIN modulators :
              /\ modulators[i].type = "Lfo" =>
                    get(params, modulators[i].target)
                        = LfoAt(modulators[i], params.time)
              /\ modulators[i].type = "ModMatrix" =>
                    \A j \in DOMAIN modulators[i].routes :
                        get(params, modulators[i].routes[j].target)
                            = RouteAt(modulators[i].routes[j], params.time)

C5_Witness ==
    /\ op = "tick"
    /\ ticks >= 2
    /\ Len(modulators) > 0
    /\ \E i \in DOMAIN modulators :
          /\ modulators[i].type = "Lfo"
          /\ LfoAt(modulators[i], params.time) # LfoAt(modulators[i], 0)

(***************************************************************************)
(* The GPU passes of a frame.  An image is known by the frame whose        *)
(* generator pass it descends from and by the stages applied to it in      *)
(* order: 0 is the generator pass, i the pass of effect i.                 *)
(***************************************************************************)
\* PingPong::read_view
read_view(current) == IF current THEN "B" ELSE "A"

\* A mutant of write_view: the view read_view gives.
write_view_aliased(current) == IF current THEN "B" ELSE "A"

\* PingPong::write_view
write_view(current) == IF current THEN "A" ELSE "B"

\* A mutant of swap: the flag is left as it is.
swap_stuck(current) == current

\* PingPong::swap
swap(current) == ~current

\* The Uniforms that render builds from the store (the surface size, which
\* no operation of this model changes, is left out).
Uniforms(p) ==
    [ center |-> << p.center_x, p.center_y >>, zoom |-> p.zoom,
      time |-> p.time, max_iter |-> p.max_iter,
      julia_c |-> << get(p, "julia_cx"), get(p, "julia_cy") >> ]

\* The u32 that effect_params_bytes gives a ColorScheme.
scheme_code(scheme) ==
    CASE scheme = "Classic"     -> 0
      [] scheme = "Fire"        -> 1
      [] scheme = "Ocean"       -> 2
      [] scheme = "Psychedelic" -> 3

\* The IEEE-754 single-precision bit pattern of an f32, given for the values
\* the effects of this model hold (thousandths on the left: 0.05, 20/255,
\* 0.15, 40/255, 0.5, 1.5, 2, TAU/2, 5, TAU, 10, 15).
f32_to_bits(v) ==
    CASE v = 0     -> 0
      [] v = 50    -> 1028443341
      [] v = 78    -> 1033937057
      [] v = 150   -> 1041865114
      [] v = 157   -> 1042325665
      [] v = 500   -> 1056964608
      [] v = 1500  -> 1069547520
      [] v = 2000  -> 1073741824
      [] v = 3141  -> 1078530011
      [] v = 5000  -> 1084227584
      [] v = 6283  -> 1086918619
      [] v = 10000 -> 1092616192
      [] v = 15000 -> 1097859072

\* u32::to_ne_bytes on the little-endian targets the application builds for.
u32_to_ne_bytes(x) ==
    << x % 256, (x \div 256) % 256, (x \div 65536) % 256,
       (x \div 16777216) % 256 >>

\* f32::to_ne_bytes.
f32_to_ne_bytes(v) == u32_to_ne_bytes(f32_to_bits(v))

\* buf[off..off + 4].copy_from_slice(bytes), with off counted from 0.
copy_from_slice(buf, off, bytes) ==
    [ i \in 1..Len(buf) |->
        IF i > off /\ i <= off + Len(bytes) THEN bytes[i - off] ELSE buf[i] ]

\* A mutant of effect_params_bytes: the fields packed from the end of the
\* block, so that the padding comes first.
effect_params_bytes_at_end(kind) ==
    LET buf == [ i \in 1..16 |-> 0 ]
    IN  CASE kind.type = "ColorMap" ->
               copy_from_slice(buf, 12, u32_to_ne_bytes(scheme_code(kind.scheme)))
          [] kind.type = "Ripple" ->
               copy_from_slice(
                 copy_from_slice(
                   copy_from_slice(buf, 4, f32_to_ne_bytes(kind.frequency)),
                   8, f32_to_ne_bytes(kind.amplitude)),
                 12, f32_to_ne_bytes(kind.speed))
          [] kind.type = "Echo" ->
               copy_from_slice(
                 copy_from_slice(
                   copy_from_slice(buf, 4, u32_to_ne_bytes(kind.layers)),
                   8, f32_to_ne_bytes(kind.offset)),
                 12, f32_to_ne_bytes(kind.decay))
          [] kind.type = "HueShift" ->
               copy_from_slice(buf, 12, f32_to_ne_bytes(kind.amount))
          [] kind.type = "BrightnessContrast" ->
               copy_from_slice(
                 copy_from_slice(buf, 8, f32_to_ne_bytes(kind.brightness)),
                 12, f32_to_ne_bytes(kind.contrast))
          [] kind.type = "MotionBlur" ->
               copy_from_slice(buf, 12, f32_to_ne_bytes(kind.opacity))

\* effect_params_bytes: the 16-byte block the effect shaders read.
effect_params_bytes(kind) ==
    LET buf == [ i \in 1..16 |-> 0 ]
    IN  CASE kind.type = "ColorMap" ->
               copy_from_slice(buf, 0, u32_to_ne_bytes(scheme_code(kind.scheme)))
          [] kind.type = "Ripple" ->
               copy_from_slice(
                 copy_from_slice(
                   copy_from_slice(buf, 0, f32_to_ne_bytes(kind.frequency)),
                   4, f32_to_ne_bytes(kind.amplitude)),
                 8, f32_to_ne_bytes(kind.speed))
          [] kind.type = "Echo" ->
               copy_from_slice(
                 copy_from_slice(
                   copy_from_slice(buf, 0, u32_to_ne_bytes(kind.layers)),
                   4, f32_to_ne_bytes(kind.offset)),
                 8, f32_to_ne_bytes(kind.decay))
          [] kind.type = "HueShift" ->
               copy_from_slice(buf, 0, f32_to_ne_bytes(kind.amount))
          [] kind.type = "BrightnessContrast" ->
               copy_from_slice(
                 copy_from_slice(buf, 0, f32_to_ne_bytes(kind.brightness)),
                 4, f32_to_ne_bytes(kind.contrast))
          [] kind.type = "MotionBlur" ->
               copy_from_slice(buf, 0, f32_to_ne_bytes(kind.opacity))

\* GeneratorPass::dispatch: the uniforms queued for the generator's uniform
\* buffer, then one compute pass writing output_view.
GeneratorPass_dispatch(enc, kind, uniforms) ==
    Append(enc, [ stage |-> "gen", index |-> 0, kind |-> kind,
                  uniforms |-> uniforms, read |-> None, write |-> "gen",
                  writes |-> << [ buf |-> << "gen_uniform" >>,
                                  data |-> uniforms ] >>,
                  bind |-> [ uniform |-> << "gen_uniform" >>,
                             params |-> None ] ])

\* A mutant of dispatch_raw: one params buffer kept by the pass and bound by
\* every call, as the uniform buffer is.
dispatch_raw_shared_params(enc, index, kind, uniforms, read, write) ==
    LET params_buf == << "effect_params" >>
    IN  Append(enc, [ stage |-> "effect", index |-> index, kind |-> kind,
                      uniforms |-> uniforms, read |-> Some(read),
                      write |-> write,
                      writes |-> << [ buf |-> << "effect_uniform" >>,
                                      data |-> uniforms ],
                                    [ buf |-> params_buf,
                                      data |-> effect_params_bytes(kind) ] >>,
                      bind |-> [ uniform |-> << "effect_uniform" >>,
                                 params |-> Some(params_buf) ] ])

\* EffectPass::dispatch_raw: a params buffer created by this call (named by
\* the position of the pass in the encoder), the two writes queued, and one
\* compute pass from read to write bound to the pass's uniform buffer and to
\* the new params buffer.
dispatch_raw(enc, index, kind, uniforms, read, write) ==
    LET params_buf == << "effect_params", Len(enc) + 1 >>
    IN  Append(enc, [ stage |-> "effect", index |-> index, kind |-> kind,
                      uniforms |-> uniforms, read |-> Some(read),
                      write |-> write,
                      writes |-> << [ buf |-> << "effect_uniform" >>,
                                      data |-> uniforms ],
                                    [ buf |-> params_buf,
                                      data |-> effect_params_bytes(kind) ] >>,
                      bind |-> [ uniform |-> << "effect_uniform" >>,
                                 params |-> Some(params_buf) ] ])

\* EffectPass::dispatch: one pass over the pair, then pp.swap().
dispatch(enc, kind, uniforms, current) ==
    [ encoder |-> dispatch_raw(enc, 1, kind, uniforms, read_view(current),
                               write_view(current)),
      current |-> swap(current) ]

RECURSIVE chain_from(_, _, _, _, _, _)
\* The loop of EffectPass::dispatch_chain from effect i on.
chain_from(enc, kinds, uniforms, gen_view, current, i) ==
    IF i > Len(kinds) THEN [ encoder |-> enc, current |-> current ]
    ELSE LET read == IF i = 1 THEN gen_view ELSE read_view(current)
         IN  chain_from(dispatch_raw(enc, i, kinds[i], uniforms, read,
                                     write_view(current)),
                        kinds, uniforms, gen_view, swap(current), i + 1)

\* A mutant of dispatch_chain: the first effect reads the pair's read view.
dispatch_chain_unseeded(enc, kinds, uniforms, gen_view, current) ==
    chain_from(enc, kinds, uniforms, read_view(current), current, 1)

\* EffectPass::dispatch_chain
dispatch_chain(enc, kinds, uniforms, gen_view, current) ==
    chain_from(enc, kinds, uniforms, gen_view, current, 1)

\* A mutant of the recording order: the effect chain, then the generator.
record_effects_first(gen_kind, kinds, uniforms, current) ==
    LET chain == dispatch_chain(<< >>, kinds, uniforms, "gen", current)
    IN  [ encoder |-> GeneratorPass_dispatch(chain.encoder, gen_kind, uniforms),
          current |-> chain.current ]

\* App::render: the generator compute pass, then the effect chain, recorded
\* into the frame's fresh encoder.
record_frame(gen_kind, kinds, uniforms, current) ==
    dispatch_chain(GeneratorPass_dispatch(<< >>, gen_kind, uniforms),
                   kinds, uniforms, "gen", current)

\* A mutant of final_view: the pair's read view, whatever the chain's length.
final_view_always_pair(kinds, current) == read_view(current)

\* App::render: the view bound to the fullscreen pass.
final_view(kinds, current) ==
    IF kinds = << >> THEN "gen" ELSE read_view(current)

\* What a pass writes: the generator a fresh image of the frame, an effect
\* the image it read with its own stage applied.
PassOutput(pass, t, frame) ==
    IF pass.stage = "gen"
    THEN [ frame |-> frame, stages |-> << 0 >> ]
    ELSE [ frame |-> t[pass.read[1]].frame,
           stages |-> Append(t[pass.read[1]].stages, pass.index) ]

RECURSIVE Execute(_, _, _, _)
\* queue.submit: the passes of the encoder run in the order of recording.
Execute(t, passes, frame, i) ==
    IF i > Len(passes) THEN t
    ELSE Execute([t EXCEPT ![passes[i].write] = PassOutput(passes[i], t, frame)],
                 passes, frame, i + 1)

\* Effect::kind of every effect of the list, in order.
effect_kinds(es, p) == [ i \in 1..Len(es) |-> Effect_kind(es[i], p) ]

\* The patches a frame is rendered from: every preset, and the patch with no
\* effect that Patch::new gives.
FramePatches ==
    { build(Preset_ALL[i]) : i \in DOMAIN Preset_ALL }
    \cup { Patch("Mandelbrot", Params_default, << >>, << >>) }

\* The effect passed to a single EffectPass::dispatch call.
DispatchKinds == { [ type |-> "HueShift", amount |-> 500 ] }

InitFrame ==
    /\ \E patch \in FramePatches : InitFrom(patch)
    /\ InitGpu
    /\ InitOne
    /\ InitApp

\* App::render, when the surface texture is acquired.
Render(dt) ==
    /\ steps < MaxSteps
    /\ LET p1       == tick(modulators, params, dt)
           uniforms == Uniforms(p1)
           kinds    == effect_kinds(effects, p1)
           rec      == record_frame(generator, kinds, uniforms, pp_current)
           t1       == Execute(tex, rec.encoder, p1.frame, 1)
           view     == final_view(kinds, rec.current)
       IN  /\ params' = p1
           /\ encoder' = rec.encoder
           /\ pp_current' = rec.current
           /\ tex' = t1
           /\ presented' = Some([ view |-> view, image |-> t1[view] ])
    /\ frameIn' = pp_current
    /\ ticks' = ticks + 1
    /\ dtSum' = dtSum + dt
    /\ everSet' = everSet \cup AllTargets(modulators, 1)
    /\ steps' = steps + 1
    /\ op' = "render"
    /\ UNCHANGED << patchVars, appVars, last_gen_params, ret, calls, atCall,
                    atPrevCall, lastSet >>

\* EffectPass::dispatch of one effect into an encoder that is then submitted.
Dispatch(kind) ==
    /\ steps < MaxSteps
    /\ LET rec == dispatch(<< >>, kind, Uniforms(params), pp_current)
       IN  /\ encoder' = rec.encoder
           /\ pp_current' = rec.current
           /\ tex' = Execute(tex, rec.encoder, params.frame, 1)
    /\ frameIn' = pp_current
    /\ steps' = steps + 1
    /\ op' = "dispatch"
    /\ UNCHANGED << patchVars, appVars, params, last_gen_params, presented,
                    ret, calls, atCall, atPrevCall, ticks, dtSum, lastSet, everSet >>

NextFrame ==
    \/ \E dt \in DtVals : Render(dt)
    \/ \E kind \in DispatchKinds : Dispatch(kind)

SpecFrame == InitFrame /\ [][NextFrame]_vars

(***************************************************************************)
(* Properties of the effect chain.                                         *)
(***************************************************************************)
\* The effect passes of the encoder, in the order of recording.
EffectPasses == SelectSeq(encoder, LAMBDA pass : pass.stage = "effect")

\* The buffer of the pair in the write role when the flag is current.
WriteRole(current) == IF current THEN "A" ELSE "B"

\* C6: the first effect of a chain reads the generator's image and writes
\* the buffer in the write role (B for a new pair); every later effect
\* reads the buffer the effect before it wrote and writes the other one.
C6_ChainAlternatesBuffers ==
    /\ op = "new" => WriteRole(pp_current) = "B"
    /\ op = "render" =>
          /\ Len(EffectPasses) >= 1 =>
                /\ EffectPasses[1].read = Some("gen")
                /\ EffectPasses[1].write = WriteRole(frameIn)
          /\ \A i \in 2..Len(EffectPasses) :
                /\ EffectPasses[i].read = Some(EffectPasses[i - 1].write)
                /\ EffectPasses[i].write \in { "A", "B" }
                /\ EffectPasses[i].write # EffectPasses[i - 1].write

C6_Witness ==
    /\ op = "render"
    /\ Len(EffectPasses) = 3
    /\ frameIn = TRUE

\* The image of frame f after the generator pass and the passes of effects
\* 1..n, each applied to the output of the stage before it.
ImageAfter(f, n) == [ frame |-> f, stages |-> [ i \in 1..(n + 1) |-> i - 1 ] ]

\* C7: the image handed to presentation is the output of the last stage of
\* the frame: the generator's image when there is no effect, otherwise the
\* buffer the frame's last effect wrote.
C7_PresentsLastStage ==
    op = "render" =>
        /\ presented # None
        /\ presented[1].image = ImageAfter(params.frame, Len(effects))
        /\ presented[1].view =
              IF Len(effects) = 0 THEN "gen"
              ELSE EffectPasses[Len(EffectPasses)].write

C7_Witness ==
    /\ op = "render"
    /\ Len(effects) = 0
    /\ frameIn = TRUE
    /\ tex["B"] # Blank

\* C8: a chain toggles the flag once per effect: no effect, no effect pass
\* and the flag as before; an even number, the flag as before; an odd
\* number, the flag inverted.
C8_OneSwapPerEffect ==
    op = "render" =>
        /\ Len(EffectPasses) = Len(effects)
        /\ Len(effects) % 2 = 0 => pp_current = frameIn
        /\ Len(effects) % 2 = 1 => pp_current = ~frameIn

C8_Witness ==
    /\ op = "render"
    /\ Len(effects) = 2
    /\ frameIn = TRUE
    /\ pp_current = TRUE

\* C9: the generator pass is recorded before every effect pass, and the
\* effect passes in the order of the patch's effect list.
C9_GeneratorThenEffectsInOrder ==
    op = "render" =>
        /\ Len(encoder) = 1 + Len(effects)
        /\ encoder[1].stage = "gen"
        /\ encoder[1].kind = generator
        /\ \A i \in 1..Len(effects) :
              /\ encoder[i + 1].stage = "effect"
              /\ encoder[i + 1].index = i
              /\ encoder[i + 1].kind = Effect_kind(effects[i], params)

C9_Witness ==
    /\ op = "render"
    /\ Len(effects) = 3
    /\ encoder[3].kind.type = "Ripple"
    /\ encoder[3].kind.amplitude # 10000

\* C10: no effect pass reads the image it writes; the read and the write
\* view are different buffers of the pair; swap exchanges them.
C10_ReadAndWriteDiffer ==
    /\ \A i \in DOMAIN encoder :
          encoder[i].stage = "effect" => encoder[i].read # Some(encoder[i].write)
    /\ { read_view(pp_current), write_view(pp_current) } = { "A", "B" }
    /\ op = "dispatch" =>
          /\ read_view(pp_current) = encoder[1].write
          /\ write_view(pp_current) = encoder[1].read[1]

C10_Witness ==
    /\ op = "dispatch"
    /\ frameIn = TRUE
    /\ tex["A"].stages = << 0, 1, 1 >>

(***************************************************************************)
(* The params block of an effect pass, and the buffers the passes of one  *)
(* encoder see when it is submitted.                                       *)
(***************************************************************************)
\* The schemes of ColorScheme.
ColorScheme == { "Classic", "Fire", "Ocean", "Psychedelic" }

\* The fields of an EffectKind variant in the order of their declaration,
\* each with its Rust type.
EffectKind_fields(kind) ==
    CASE kind.type = "ColorMap" -> << [ ty |-> "scheme", v |-> kind.scheme ] >>
      [] kind.type = "Ripple" ->
            << [ ty |-> "f32", v |-> kind.frequency ],
               [ ty |-> "f32", v |-> kind.amplitude ],
               [ ty |-> "f32", v |-> kind.speed ] >>
      [] kind.type = "Echo" ->
            << [ ty |-> "u32", v |-> kind.layers ],
               [ ty |-> "f32", v |-> kind.offset ],
               [ ty |-> "f32", v |-> kind.decay ] >>
      [] kind.type = "HueShift" -> << [ ty |-> "f32", v |-> kind.amount ] >>
      [] kind.type = "BrightnessContrast" ->
            << [ ty |-> "f32", v |-> kind.brightness ],
               [ ty |-> "f32", v |-> kind.contrast ] >>
      [] kind.type = "MotionBlur" -> << [ ty |-> "f32", v |-> kind.opacity ] >>

\* The f32 values the effects of this model hold, in thousandths.
F32Values ==
    { 0, 50, 78, 150, 157, 500, 1500, 2000, 3141, 5000, 6283, 10000, 15000 }

\* u32::from_ne_bytes(buf[off..off + 4]), as the tests of effect_params_bytes
\* read a block back.
u32_at(buf, off) ==
    buf[off + 1] + 256 * buf[off + 2] + 65536 * buf[off + 3]
    + 16777216 * buf[off + 4]

\* f32::from_ne_bytes(buf[off..off + 4]); -1 stands for a bit pattern that is
\* none of the values above.
f32_at(buf, off) ==
    IF \E v \in F32Values : f32_to_bits(v) = u32_at(buf, off)
    THEN CHOOSE v \in F32Values : f32_to_bits(v) = u32_at(buf, off)
    ELSE -1

\* The block queued for the params buffer of pass i of the encoder.
ParamsWritten(i) == encoder[i].writes[2].data

\* C21: the block written for every effect pass has exactly 16 bytes; the
\* variant's fields read back from 4-byte offsets 0, 4, 8 in the order of
\* their declaration; every byte after the last field is zero; a ColorMap
\* block reads back the code Classic 0, Fire 1, Ocean 2, Psychedelic 3 and
\* differs from the block of every other scheme.
C21_ParamsBlockLayout ==
    \A i \in DOMAIN encoder :
        encoder[i].stage = "effect" =>
            LET kind   == encoder[i].kind
                buf    == ParamsWritten(i)
                fields == EffectKind_fields(kind)
            IN  /\ Len(buf) = 16
                /\ \A n \in DOMAIN buf : buf[n] \in 0..255
                /\ \A j \in DOMAIN fields :
                      LET off == 4 * (j - 1)
                      IN  CASE fields[j].ty = "u32" ->
                                 u32_at(buf, off) = fields[j].v
                            [] fields[j].ty = "f32" ->
                                 f32_at(buf, off) = fields[j].v
                            [] fields[j].ty = "scheme" ->
                                 /\ fields[j].v = "Classic" => u32_at(buf, off) = 0
                                 /\ fields[j].v = "Fire" => u32_at(buf, off) = 1
                                 /\ fields[j].v = "Ocean" => u32_at(buf, off) = 2
                                 /\ fields[j].v = "Psychedelic" =>
                                        u32_at(buf, off) = 3
                /\ \A n \in (4 * Len(fields) + 1)..16 : buf[n] = 0
                /\ kind.type = "ColorMap" =>
                      \A s \in ColorScheme \ { kind.scheme } :
                          buf # effect_params_bytes(
                                    [ type |-> "ColorMap", scheme |-> s ])

\* A frame of the three-effect preset was recorded with the ripple at the
\* top of its range: a ColorMap block, a three-float block and a block whose
\* first field is an integer are all queued.
C21_Witness ==
    /\ op = "render"
    /\ Len(EffectPasses) = 3
    /\ EffectPasses[2].kind.type = "Ripple"
    /\ EffectPasses[2].kind.amplitude = 15000
    /\ EffectPasses[3].kind.type = "Echo"
    /\ f32_at(EffectPasses[2].writes[2].data, 4) = 15000

RECURSIVE queued_writes(_, _)
\* The queue.write_buffer calls made while passes i.. were recorded, in the
\* order of the calls.
queued_writes(passes, i) ==
    IF i > Len(passes) THEN << >>
    ELSE passes[i].writes \o queued_writes(passes, i + 1)

\* The content of buffer buf when the encoder's passes execute: queue.submit
\* applies every queued write before the command buffer runs, so a buffer
\* holds the data of the last write queued for it.
buffer_at_submit(passes, buf) ==
    LET q    == queued_writes(passes, 1)
        hits == { n \in DOMAIN q : q[n].buf = buf }
        last == CHOOSE n \in hits : \A m \in hits : m <= n
    IN  q[last].data

\* What pass i of the encoder reads through its bind group.
pass_sees(passes, i) ==
    [ uniforms |-> buffer_at_submit(passes, passes[i].bind.uniform),
      params   |-> buffer_at_submit(passes, passes[i].bind.params[1]) ]

\* C29: every effect pass of the submitted encoder executes with the block
\* serialized from its own kind and with the uniforms it was recorded
\* with, and every write queued for the effect pass's uniform buffer
\* carries the same snapshot.
C29_PassSeesOwnParams ==
    /\ \A i \in DOMAIN encoder :
          encoder[i].stage = "effect" =>
              /\ pass_sees(encoder, i).params
                     = effect_params_bytes(encoder[i].kind)
              /\ pass_sees(encoder, i).uniforms = encoder[i].uniforms
    /\ LET q == queued_writes(encoder, 1)
       IN  \A m, n \in DOMAIN q :
               (q[m].buf = << "effect_uniform" >> /\ q[n].buf = q[m].buf)
                   => q[m].data = q[n].data

\* An encoder with three effect passes of three kinds was submitted, and
\* the first and the last were given different blocks.
C29_Witness ==
    /\ op = "render"
    /\ Len(EffectPasses) = 3
    /\ pass_sees(encoder, 2).params # pass_sees(encoder, 4).params
    /\ pass_sees(encoder, 2).params = effect_params_bytes(encoder[2].kind)

(***************************************************************************)
(* Modulators applied one at a time to a store, as the tests of            *)
(* modulators.rs do: the store is Params::default() with its elapsed time  *)
(* and pointer position set by hand.                                       *)
(***************************************************************************)
\* The modulator lists: the matrices and pointer mappers of the tests, and
\* matrices whose inner oscillator has an amplitude of 2, an offset of 0.5,
\* or a target key that is not the route's.
ModLists ==
    { << ModMatrix(<< Route(Lfo("hue_shift_amount", 1, 1000, 0),
                            "hue_shift_amount", 10000, 20000) >>),
         ModMatrix(<< Route(Lfo("julia_cx", 1, 1000, 0), "julia_cx", 0, 1000),
                      Route(Lfo("julia_cy", 1, 1000, 0), "julia_cy",
                            5000, 10000) >>),
         MouseModulator(Some("ripple_amplitude"), None),
         MouseModulator(None, Some("brightness_amount")) >>,
      << ModMatrix(<< Route(Lfo("hue_shift_amount", 1, 2000, 0),
                            "hue_shift_amount", 0, 1000) >>),
         ModMatrix(<< Route(Lfo("julia_cx", 1, 1000, 500), "julia_cx",
                            -2000, 3000) >>),
         ModMatrix(<< Route(Lfo("julia_cy", 1, 1000, 0), "ripple_amplitude",
                            0, 1000) >>),
         MouseModulator(None, None),
         MouseModulator(Some("brightness_amount"), Some("julia_cy")) >> }

ModPatches == { Patch("Mandelbrot", Params_default, << >>, ms) : ms \in ModLists }

\* The elapsed times and the pointer positions set by hand.
TimeVals == { 1, 2, 3 }

MousePositions == { << 800, 300 >>, << 200, 600 >> }

\* surface_config.width and height: the size the window is created with.
SurfaceWidth == 800

SurfaceHeight == 600

InitMod ==
    /\ \E patch \in ModPatches : InitFrom(patch)
    /\ InitGpu
    /\ InitOne
    /\ InitApp

\* m.modulate(&mut p) of the i-th modulator of the list
Modulate(i) ==
    /\ steps < MaxSteps
    /\ i \in DOMAIN modulators
    /\ params' = modulate(modulators[i], params)
    /\ before' = Some(params)
    /\ applied' = Some(modulators[i])
    /\ everSet' = everSet \cup ModTargets(modulators[i])
    /\ steps' = steps + 1
    /\ op' = "modulate"
    /\ UNCHANGED << patchVars, gpuVars, last_gen_params, ret, calls, atCall,
                    atPrevCall, ticks, dtSum, lastSet, built, other, otherOps,
                    current_preset_idx, exiting, redraw, click, inputVars >>

\* p.time = v
EditTime(v) ==
    /\ steps < MaxSteps
    /\ v # params.time
    /\ params' = [params EXCEPT !.time = v]
    /\ steps' = steps + 1
    /\ op' = "edit"
    /\ UNCHANGED << patchVars, appVars, gpuVars, last_gen_params, ret, calls,
                    atCall, atPrevCall, ticks, dtSum, lastSet, everSet >>

\* App::on_cursor_moved: cursor_pos = (x, y); mouse_x = x / w, mouse_y = y / h
on_cursor_moved(pos) ==
    /\ steps < MaxSteps
    /\ cursor_pos # pos
    /\ cursor_pos' = pos
    /\ params' = [params EXCEPT
                    !.mouse_x = (pos[1] * 1000) \div SurfaceWidth,
                    !.mouse_y = (pos[2] * 1000) \div SurfaceHeight]
    /\ steps' = steps + 1
    /\ op' = "edit"
    /\ UNCHANGED << patchVars, gpuVars, last_gen_params, ret, calls, atCall,
                    atPrevCall, ticks, dtSum, lastSet, everSet, before, applied,
                    built, other, otherOps, current_preset_idx, exiting, redraw,
                    click, drag_start, released, handled >>

NextMod ==
    \/ \E i \in 1..5 : Modulate(i)
    \/ \E v \in TimeVals : EditTime(v)
    \/ \E pos \in MousePositions : on_cursor_moved(pos)

SpecMod == InitMod /\ [][NextMod]_vars

(***************************************************************************)
(* Properties of the modulators.                                           *)
(***************************************************************************)
\* No later route of the list writes the key route j writes.
LastForTarget(routes, j) ==
    \A k \in DOMAIN routes : k > j => routes[k].target # routes[j].target

\* The route's inner modulator is a sine oscillator of amplitude 1 and
\* offset 0 that writes the route's own key.
UnitSine(r) ==
    /\ r.modulator.type = "Lfo"
    /\ r.modulator.waveform = "Sine"
    /\ r.modulator.amplitude = 1000
    /\ r.modulator.offset = 0
    /\ r.modulator.target = r.target

\* A ModMatrix was the modulator of the last operation.
MatrixApplied == op = "modulate" /\ applied[1].type = "ModMatrix"

\* C11: a route whose inner sine oscillator (amplitude 1, offset 0, the
\* route's own key) produces +1 writes max to its target, and min when the
\* oscillator produces -1; with several routes every target holds the value
\* of its own route.
C11_RouteMapsExtremes ==
    MatrixApplied =>
        \A j \in DOMAIN applied[1].routes :
            LET r   == applied[1].routes[j]
                raw == SineQuarter(before[1].time * r.modulator.frequency)
            IN  (UnitSine(r) /\ LastForTarget(applied[1].routes, j)) =>
                    /\ raw = 1000 => get(params, r.target) = r.max
                    /\ raw = -1000 => get(params, r.target) = r.min

C11_Witness ==
    /\ MatrixApplied
    /\ Len(applied[1].routes) = 2
    /\ \A j \in DOMAIN applied[1].routes : UnitSine(applied[1].routes[j])
    /\ before[1].time = 1
    /\ get(params, "julia_cx") = 1000
    /\ get(params, "julia_cy") = 10000

\* C12: whatever the inner modulator writes, the value a route writes to
\* its target lies between the route's min and max.
C12_RouteWritesWithinRange ==
    MatrixApplied =>
        \A j \in DOMAIN applied[1].routes :
            LET r == applied[1].routes[j]
            IN  LastForTarget(applied[1].routes, j) =>
                    /\ r.min <= get(params, r.target)
                    /\ get(params, r.target) <= r.max

\* C22: the value a route rescales is the one its inner oscillator wrote at
\* the oscillator's own key in the copy, also when that key is not the
\* route's target: the route's target then holds the rescaled output of the
\* oscillator (taken here within [-1, 1]), never the rescaled previous value
\* of the target.
C22_RouteRescalesInnerOutput ==
    MatrixApplied =>
        \A j \in DOMAIN applied[1].routes :
            LET r   == applied[1].routes[j]
                raw == get(modulate(r.modulator, before[1]), r.modulator.target)
            IN  (/\ r.modulator.type = "Lfo"
                 /\ LastForTarget(applied[1].routes, j)
                 /\ raw >= -1000 /\ raw <= 1000) =>
                    get(params, r.target)
                        = r.min + (((raw * 500) \div 1000 + 500)
                                   * (r.max - r.min)) \div 1000

\* C13: ModMatrix::modulate changes the store at the routes' target keys
\* only: a key an inner modulator writes that is no route's target, every
\* other key, and every fixed field are as they were before the call.
C13_MatrixTouchesOnlyTargets ==
    MatrixApplied =>
        /\ [params EXCEPT !.fields = before[1].fields] = before[1]
        /\ \A k \in (DOMAIN params.fields \cup DOMAIN before[1].fields)
                    \ ModTargets(applied[1]) :
              /\ k \in DOMAIN params.fields
              /\ k \in DOMAIN before[1].fields
              /\ params.fields[k] = before[1].fields[k]
        /\ \A k \in Keys \ ModTargets(applied[1]) :
              get(params, k) = get(before[1], k)

C13_Witness ==
    /\ MatrixApplied
    /\ \E j \in DOMAIN applied[1].routes :
          LET inner == applied[1].routes[j].modulator
          IN  /\ inner.target \notin ModTargets(applied[1])
              /\ get(modulate(inner, before[1]), inner.target)
                    # get(before[1], inner.target)
              /\ get(params, inner.target) = get(before[1], inner.target)
    /\ before[1].mouse_x # 0

\* C18: MouseModulator writes mouse_x*2-1 to its x target and mouse_y*2-1
\* to its y target when the target is configured, and nothing for a target
\* that is unset: with both unset the store is as it was.
C18_MouseMapsConfiguredTargets ==
    (op = "modulate" /\ applied[1].type = "MouseModulator") =>
        LET m == applied[1]
            b == before[1]
        IN  /\ (m.target_x # None /\ m.target_y # m.target_x) =>
                  get(params, m.target_x[1]) = 2 * b.mouse_x - 1000
            /\ m.target_y # None =>
                  get(params, m.target_y[1]) = 2 * b.mouse_y - 1000
            /\ [params EXCEPT !.fields = b.fields] = b
            /\ \A k \in (DOMAIN params.fields \cup DOMAIN b.fields)
                        \ ModTargets(m) :
                  /\ k \in DOMAIN params.fields
                  /\ k \in DOMAIN b.fields
                  /\ params.fields[k] = b.fields[k]
            /\ (m.target_x = None /\ m.target_y = None) => params = b

C18_Witness ==
    /\ op = "modulate"
    /\ applied[1].type = "MouseModulator"
    /\ applied[1].target_x # None
    /\ applied[1].target_y = None
    /\ get(params, applied[1].target_x[1]) = -500
    /\ before[1].mouse_y = 1000
    /\ DOMAIN params.fields = { applied[1].target_x[1] }

(***************************************************************************)
(* Two patches built from the same preset, each then used on its own, as   *)
(* in the test build_returns_independent_patches.  The first is the patch  *)
(* of the variables generator .. last_gen_params, the second is `other`.   *)
(***************************************************************************)
\* A mutant of the second build() call: the store is left at its defaults.
build_pair_unconfigured(preset) ==
    << build(preset), [build(preset) EXCEPT !.params = Params_default] >>

\* let mut p1 = preset.build(); let p2 = preset.build();
build_pair(preset) == << build(preset), build(preset) >>

\* The inputs of the operations on either patch.
PairDt == { 1 }

PairZoom == { 99000 }

PairKeys == { "julia_cx" }

PairVals == { 420 }

InitTwo ==
    /\ \E i \in DOMAIN Preset_ALL :
          LET pair == build_pair(Preset_ALL[i])
          IN  /\ InitFrom(pair[1])
              /\ other = Some([ generator |-> pair[2].generator,
                                params |-> pair[2].params,
                                effects |-> pair[2].effects,
                                modulators |-> pair[2].modulators,
                                last_gen_params |-> None ])
    /\ otherOps = 0
    /\ InitGpu
    /\ InitApp

\* What every operation on the second patch leaves alone.
OtherFrame ==
    /\ steps < MaxSteps
    /\ steps' = steps + 1
    /\ otherOps' = otherOps + 1
    /\ op' = "other"
    /\ UNCHANGED << patchVars, gpuVars, params, last_gen_params, ret, calls,
                    atCall, atPrevCall, ticks, dtSum, lastSet, everSet, before,
                    applied, built, current_preset_idx, exiting, redraw,
                    click, inputVars >>

\* p2.tick(dt)
OtherTick(dt) ==
    /\ other' = Some([other[1] EXCEPT
                        !.params = tick(other[1].modulators, @, dt)])
    /\ OtherFrame

\* p2.generator_dirty()
OtherGeneratorDirty ==
    /\ other' = Some([other[1] EXCEPT
                        !.last_gen_params =
                            cache_after(other[1].generator, other[1].params, @)])
    /\ OtherFrame

\* p2.params.zoom = v
OtherEditZoom(v) ==
    /\ v # other[1].params.zoom
    /\ other' = Some([other[1] EXCEPT !.params.zoom = v])
    /\ OtherFrame

\* p2.params.set(key, value)
OtherSet(key, value) ==
    /\ other' = Some([other[1] EXCEPT !.params = set(@, key, value)])
    /\ OtherFrame

NextTwo ==
    \/ \E dt \in PairDt : Tick(dt)
    \/ GeneratorDirty
    \/ \E v \in PairZoom : EditZoom(v)
    \/ \E key \in PairKeys, value \in PairVals : Set(key, value)
    \/ \E dt \in PairDt : OtherTick(dt)
    \/ OtherGeneratorDirty
    \/ \E v \in PairZoom : OtherEditZoom(v)
    \/ \E key \in PairKeys, value \in PairVals : OtherSet(key, value)

SpecTwo == InitTwo /\ [][NextTwo]_vars

MaxZoom == 8000

\* A mutant of clamp_iterations: the lower bound is not enforced.
clamp_iterations_no_floor(iter) == IF iter > 500 THEN 500 ELSE iter

\* clamp_iterations: iter.clamp(20, 500)
clamp_iterations(iter) ==
    IF iter < 20 THEN 20 ELSE IF iter > 500 THEN 500 ELSE iter

\* u32::saturating_add, for sums below u32::MAX (max_iter is at most 500).
saturating_add(a, b) == a + b

\* u32::saturating_sub
saturating_sub(a, b) == IF a < b THEN 0 ELSE a - b

\* A mutant of apply_zoom: the click's offset is taken from the corner.
apply_zoom_from_corner(cx, cy, zoom, norm_x, norm_y, aspect) ==
    LET scale  == (4000 * 1000) \div zoom
        new_cx == cx + (((norm_x * scale) \div 1000) * aspect) \div 1000
        new_cy == cy + (norm_y * scale) \div 1000
    IN  << new_cx, new_cy, zoom * 2 >>

\* apply_zoom: scale = 4.0 / zoom;
\*   new_cx = cx + (norm_x - 0.5) * scale * aspect;
\*   new_cy = cy + (norm_y - 0.5) * scale; (new_cx, new_cy, zoom * 2.0)
apply_zoom(cx, cy, zoom, norm_x, norm_y, aspect) ==
    LET scale  == (4000 * 1000) \div zoom
        new_cx == cx + ((((norm_x - 500) * scale) \div 1000) * aspect) \div 1000
        new_cy == cy + ((norm_y - 500) * scale) \div 1000
    IN  << new_cx, new_cy, zoom * 2 >>

\* The normalised click positions and the aspect ratios (1 and 4/3).
ClickPositions == { << 500, 500 >>, << 0, 0 >> }

AspectVals == { 1000, 1333 }

\* A mutant of the replacement: the new patch takes over the dirty cache of
\* the one it replaces.
InstallPatch_keeps_cache(preset) ==
    /\ generator' = build(preset).generator
    /\ effects' = build(preset).effects
    /\ modulators' = build(preset).modulators
    /\ params' = build(preset).params
    /\ last_gen_params' = last_gen_params
    /\ built' = Some(preset)
    /\ op' = "new"
    /\ ret' = FALSE
    /\ calls' = 0
    /\ atCall' = None
    /\ atPrevCall' = None
    /\ ticks' = 0
    /\ dtSum' = 0
    /\ lastSet' = None
    /\ everSet' = DOMAIN build(preset).params.fields
    /\ before' = None
    /\ applied' = None
    /\ click' = None
    /\ UNCHANGED steps

\* self.patch = preset.build(): the patch is replaced as a whole.
InstallPatch(preset) ==
    /\ generator' = build(preset).generator
    /\ effects' = build(preset).effects
    /\ modulators' = build(preset).modulators
    /\ params' = build(preset).params
    /\ last_gen_params' = None
    /\ built' = Some(preset)
    /\ op' = "new"
    /\ ret' = FALSE
    /\ calls' = 0
    /\ atCall' = None
    /\ atPrevCall' = None
    /\ ticks' = 0
    /\ dtSum' = 0
    /\ lastSet' = None
    /\ everSet' = DOMAIN build(preset).params.fields
    /\ before' = None
    /\ applied' = None
    /\ click' = None
    /\ UNCHANGED steps

\* What no input action touches.
InputFrame ==
    /\ ~exiting
    /\ UNCHANGED << gpuVars, other, otherOps, redraw, cursor_pos, drag_start,
                    released >>

\* The record of a handle_action call: the action, the value returned, and
\* the selected index, the store and the dirty cache as the call found them;
\* run counts the CycleNextPreset calls in a row, from is the index that
\* row started at.
Handled(action, returned, run, from) ==
    Some([ action |-> action, returned |-> returned,
           idx |-> current_preset_idx, store |-> params,
           cache |-> last_gen_params, run |-> run, from |-> from ])

\* The part of the patch and of its history an action on the store leaves.
PatchKept ==
    UNCHANGED << patchVars, last_gen_params, ret, calls, atCall, atPrevCall,
                 ticks, dtSum, lastSet, everSet, steps, applied, built >>

\* A mutant of LoadPreset: the patch is built and the index left alone.
LoadPreset_keeps_idx(preset) ==
    /\ InputFrame
    /\ InstallPatch(preset)
    /\ handled' = Handled("LoadPreset", FALSE, 0, current_preset_idx)
    /\ UNCHANGED << current_preset_idx, exiting >>

\* InputAction::LoadPreset(preset)
LoadPreset(preset) ==
    /\ InputFrame
    /\ current_preset_idx' =
          IF \E i \in DOMAIN Preset_ALL : Preset_ALL[i] = preset
          THEN (CHOOSE i \in DOMAIN Preset_ALL : Preset_ALL[i] = preset) - 1
          ELSE current_preset_idx
    /\ InstallPatch(preset)
    /\ handled' = Handled("LoadPreset", FALSE, 0, current_preset_idx)
    /\ UNCHANGED exiting

\* InputAction::CycleNextPreset
CycleNextPreset ==
    /\ InputFrame
    /\ LET next == (current_preset_idx + 1) % Len(Preset_ALL)
       IN  /\ current_preset_idx' = next
           /\ InstallPatch(Preset_ALL[next + 1])
    /\ handled' =
          IF /\ handled # None
             /\ handled[1].action = "CycleNextPreset"
             /\ handled[1].run < Len(Preset_ALL)
          THEN Handled("CycleNextPreset", FALSE, handled[1].run + 1,
                       handled[1].from)
          ELSE Handled("CycleNextPreset", FALSE, 1, current_preset_idx)
    /\ UNCHANGED exiting

\* InputAction::Reset
Reset ==
    /\ InputFrame
    /\ InstallPatch(Preset_ALL[current_preset_idx + 1])
    /\ handled' = Handled("Reset", FALSE, 0, current_preset_idx)
    /\ UNCHANGED << current_preset_idx, exiting >>

\* InputAction::IterationsUp
IterationsUp ==
    /\ InputFrame
    /\ params' = [params EXCEPT
                    !.max_iter = clamp_iterations(saturating_add(@, 10))]
    /\ before' = Some(params)
    /\ op' = "IterationsUp"
    /\ handled' = Handled("IterationsUp", FALSE, 0, current_preset_idx)
    /\ PatchKept
    /\ UNCHANGED << current_preset_idx, exiting, click >>

\* InputAction::IterationsDown
IterationsDown ==
    /\ InputFrame
    /\ params' = [params EXCEPT
                    !.max_iter = clamp_iterations(saturating_sub(@, 10))]
    /\ before' = Some(params)
    /\ op' = "IterationsDown"
    /\ handled' = Handled("IterationsDown", FALSE, 0, current_preset_idx)
    /\ PatchKept
    /\ UNCHANGED << current_preset_idx, exiting, click >>

\* A zoom click: (cx, cy, zoom) = apply_zoom(cx, cy, zoom, norm_x, norm_y,
\* aspect) on the view of the store.
ZoomClick(pos, aspect) ==
    /\ InputFrame
    /\ params.zoom < MaxZoom
    /\ LET view == apply_zoom(params.center_x, params.center_y, params.zoom,
                              pos[1], pos[2], aspect)
       IN  params' = [params EXCEPT !.center_x = view[1], !.center_y = view[2],
                                    !.zoom = view[3]]
    /\ before' = Some(params)
    /\ click' = Some([ norm_x |-> pos[1], norm_y |-> pos[2], aspect |-> aspect,
                       n |-> IF click = None THEN 1 ELSE click[1].n + 1,
                       centred |-> /\ pos = << 500, 500 >>
                                   /\ (click # None => click[1].centred) ])
    /\ op' = "zoom"
    /\ handled' = Handled("Zoom", FALSE, 0, current_preset_idx)
    /\ PatchKept
    /\ UNCHANGED << current_preset_idx, exiting >>

\* InputAction::Quit: handle_action returns true and the event loop exits.
Quit ==
    /\ InputFrame
    /\ exiting' = TRUE
    /\ op' = "Quit"
    /\ handled' = Handled("Quit", TRUE, 0, current_preset_idx)
    /\ PatchKept
    /\ UNCHANGED << params, before, current_preset_idx, click >>

NextApp ==
    \/ \E i \in DOMAIN Preset_ALL : LoadPreset(Preset_ALL[i])
    \/ CycleNextPreset
    \/ Reset
    \/ IterationsUp
    \/ IterationsDown
    \/ \E pos \in ClickPositions, aspect \in AspectVals : ZoomClick(pos, aspect)
    \/ Quit

InitInput ==
    /\ InitFrom(build("ClassicMandelbrot"))
    /\ InitGpu
    /\ InitOne
    /\ InitApp

SpecApp == InitInput /\ [][NextApp]_vars

(***************************************************************************)
(* Properties of the input actions.                                        *)
(***************************************************************************)
\* C15: max_iter stays within [20, 500]; IterationsUp and IterationsDown
\* move it by 10 and stop at the bound, without wrapping around; and
\* clamp_iterations gives its input inside the range, 20 below it and 500
\* above it.
C15_IterationsStayClamped ==
    /\ 20 <= params.max_iter
    /\ params.max_iter <= 500
    /\ op = "IterationsUp" =>
          params.max_iter = IF before[1].max_iter + 10 > 500 THEN 500
                            ELSE before[1].max_iter + 10
    /\ op = "IterationsDown" =>
          params.max_iter = IF before[1].max_iter - 10 < 20 THEN 20
                            ELSE before[1].max_iter - 10
    /\ << clamp_iterations(0), clamp_iterations(1), clamp_iterations(19),
          clamp_iterations(20) >> = << 20, 20, 20, 20 >>
    /\ << clamp_iterations(500), clamp_iterations(501),
          clamp_iterations(9999) >> = << 500, 500, 500 >>
    /\ << clamp_iterations(21), clamp_iterations(100),
          clamp_iterations(499) >> = << 21, 100, 499 >>

C15_Witness ==
    /\ op = "IterationsDown"
    /\ before[1].max_iter = 20
    /\ params.max_iter = 20
    /\ built = Some("NoiseField")

\* C16: a zoom click at the normalised centre (0.5, 0.5) leaves the view
\* centre as it was and doubles zoom, whatever the aspect ratio; after k
\* clicks on a view of zoom 1 the zoom is 2^k.
C16_CentreClickDoublesZoom ==
    /\ (op = "zoom" /\ click[1].norm_x = 500 /\ click[1].norm_y = 500) =>
          /\ params.center_x = before[1].center_x
          /\ params.center_y = before[1].center_y
          /\ params.zoom = 2 * before[1].zoom
    /\ click # None =>
          /\ params.zoom = 1000 * 2 ^ click[1].n
          /\ click[1].centred =>
                /\ params.center_x = build(built[1]).params.center_x
                /\ params.center_y = build(built[1]).params.center_y

C16_Witness ==
    /\ op = "zoom"
    /\ click[1].n = 3
    /\ click[1].centred
    /\ click[1].aspect = 1333
    /\ params.zoom = 8000
    /\ built = Some("BurningShipTrails")

(***************************************************************************)
(* Redraws whose surface acquisition may fail: App::render as a whole and  *)
(* the RedrawRequested and Resized branches of Handler::window_event.      *)
(***************************************************************************)
\* What surface.get_current_texture() gives.
SurfaceResults == { "Ok", "Lost", "Outdated", "OutOfMemory", "Timeout" }

\* The dt of a redraw.
RedrawDt == { 1 }

\* A mutant of render: the surface is acquired after the passes are recorded.
render_acquire_late(g, es, ms, p, current, dt, surface) ==
    LET p1       == tick(ms, p, dt)
        uniforms == Uniforms(p1)
        kinds    == effect_kinds(es, p1)
        rec      == record_frame(g, kinds, uniforms, current)
    IN  [ params |-> p1, encoder |-> rec.encoder, current |-> rec.current,
          submitted |-> surface = "Ok",
          view |-> IF surface = "Ok" THEN Some(final_view(kinds, rec.current))
                   ELSE None ]

\* A mutant of render: the effect kinds are resolved before the tick.
render_kinds_before_tick(g, es, ms, p, current, dt, surface) ==
    LET p1       == tick(ms, p, dt)
        uniforms == Uniforms(p1)
        kinds    == effect_kinds(es, p)
        rec      == record_frame(g, kinds, uniforms, current)
    IN  IF surface # "Ok"
        THEN [ params |-> p1, encoder |-> << >>, current |-> current,
               submitted |-> FALSE, view |-> None ]
        ELSE [ params |-> p1, encoder |-> rec.encoder, current |-> rec.current,
               submitted |-> TRUE,
               view |-> Some(final_view(kinds, rec.current)) ]

\* App::render: tick, uniforms and effect kinds; then `?` on the surface
\* texture returns the error before the encoder exists; otherwise the
\* generator pass, the effect chain, the fullscreen pass, submit, present.
render(g, es, ms, p, current, dt, surface) ==
    LET p1       == tick(ms, p, dt)
        uniforms == Uniforms(p1)
        kinds    == effect_kinds(es, p1)
        rec      == record_frame(g, kinds, uniforms, current)
    IN  IF surface # "Ok"
        THEN [ params |-> p1, encoder |-> << >>, current |-> current,
               submitted |-> FALSE, view |-> None ]
        ELSE [ params |-> p1, encoder |-> rec.encoder, current |-> rec.current,
               submitted |-> TRUE,
               view |-> Some(final_view(kinds, rec.current)) ]

\* App::resize: nothing for a size of zero; otherwise the surface is
\* configured again and gen_pass and pp are made anew, with new textures.
resize(sized, current, t) ==
    IF ~sized THEN [ current |-> current, tex |-> t ]
    ELSE [ current |-> FALSE, tex |-> [ v \in DOMAIN t |-> Blank ] ]

\* WindowEvent::RedrawRequested: app.render(), then resize on Lost or
\* Outdated, exit on OutOfMemory, a warning on any other error.
RedrawRequested(dt, surface, sized) ==
    /\ steps < MaxSteps
    /\ ~exiting
    /\ LET r        == render(generator, effects, modulators, params,
                              pp_current, dt, surface)
           t1       == IF r.submitted
                       THEN Execute(tex, r.encoder, r.params.frame, 1)
                       ELSE tex
           resizing == surface \in { "Lost", "Outdated" }
           rs       == IF resizing THEN resize(sized, r.current, t1)
                       ELSE [ current |-> r.current, tex |-> t1 ]
       IN  /\ params' = r.params
           /\ encoder' = r.encoder
           /\ pp_current' = rs.current
           /\ tex' = rs.tex
           /\ presented' = IF r.view # None
                           THEN Some([ view |-> r.view[1],
                                       image |-> t1[r.view[1]] ])
                           ELSE presented
           /\ redraw' = Some([ surface |-> surface,
                               recorded |-> Len(r.encoder),
                               submitted |-> r.submitted,
                               presents |-> r.view # None,
                               ppBefore |-> pp_current,
                               ppAtReturn |-> r.current,
                               resized |-> resizing /\ sized,
                               shown |-> presented,
                               texBefore |-> tex,
                               prev |-> IF redraw = None THEN "none"
                                        ELSE redraw[1].surface ])
    /\ exiting' = (surface = "OutOfMemory")
    /\ frameIn' = pp_current
    /\ ticks' = ticks + 1
    /\ dtSum' = dtSum + dt
    /\ everSet' = everSet \cup AllTargets(modulators, 1)
    /\ steps' = steps + 1
    /\ op' = "redraw"
    /\ UNCHANGED << patchVars, last_gen_params, ret, calls, atCall, atPrevCall,
                    lastSet, before, applied, built, other, otherOps,
                    current_preset_idx, click, inputVars >>

\* WindowEvent::Resized: app.resize(new_size.width, new_size.height)
Resized(sized) ==
    /\ steps < MaxSteps
    /\ ~exiting
    /\ pp_current' = resize(sized, pp_current, tex).current
    /\ tex' = resize(sized, pp_current, tex).tex
    /\ steps' = steps + 1
    /\ op' = "resize"
    /\ UNCHANGED << patchVars, appVars, params, last_gen_params, encoder,
                    presented, frameIn, ret, calls, atCall, atPrevCall, ticks,
                    dtSum, lastSet, everSet >>

NextRedraw ==
    \/ \E dt \in RedrawDt, surface \in SurfaceResults, sized \in BOOLEAN :
          RedrawRequested(dt, surface, sized)
    \/ \E sized \in BOOLEAN : Resized(sized)

SpecRedraw == InitFrame /\ [][NextRedraw]_vars

\* C17: when the surface is not acquired no pass is recorded or submitted,
\* nothing is presented and render leaves the ping-pong flag as it was (the
\* resize that follows Lost or Outdated then makes a new pair); the redraw
\* after a failed one is a complete frame: generator, every effect, and the
\* presentation of its last stage.
C17_FailedFrameIsAborted ==
    op = "redraw" =>
        /\ redraw[1].surface # "Ok" =>
              /\ redraw[1].recorded = 0
              /\ encoder = << >>
              /\ ~redraw[1].submitted
              /\ ~redraw[1].presents
              /\ presented = redraw[1].shown
              /\ redraw[1].ppAtReturn = redraw[1].ppBefore
              /\ ~redraw[1].resized =>
                    /\ pp_current = redraw[1].ppBefore
                    /\ tex = redraw[1].texBefore
              /\ redraw[1].resized =>
                    /\ redraw[1].surface \in { "Lost", "Outdated" }
                    /\ pp_current = FALSE
                    /\ \A v \in DOMAIN tex : tex[v] = Blank
              /\ exiting <=> redraw[1].surface = "OutOfMemory"
        /\ (redraw[1].surface = "Ok" /\ redraw[1].prev \notin { "none", "Ok" }) =>
              /\ redraw[1].recorded = 1 + Len(effects)
              /\ redraw[1].submitted
              /\ redraw[1].presents
              /\ encoder[1].stage = "gen"
              /\ \A i \in 1..Len(effects) :
                    encoder[i + 1].kind = Effect_kind(effects[i], params)
              /\ presented[1].image = ImageAfter(params.frame, Len(effects))

C17_Witness ==
    /\ op = "redraw"
    /\ redraw[1].surface = "Ok"
    /\ redraw[1].prev = "Lost"
    /\ redraw[1].ppBefore = FALSE
    /\ Len(effects) = 3
    /\ params.frame = 3

\* C30: whatever input actions came before, current_preset_idx is an index
\* of Preset::ALL and the patch is the one built from the preset at that
\* index; n CycleNextPreset calls in a row move the index by n modulo 5, so
\* that five of them return to the preset they started from; handle_action
\* returns true for Quit and for no other action, and Quit leaves the
\* index, the store and the dirty cache as they were.
C30_IndexNamesLivePatch ==
    /\ Len(Preset_ALL) = 5
    /\ current_preset_idx \in 0..4
    /\ built = Some(Preset_ALL[current_preset_idx + 1])
    /\ << generator, effects, modulators >>
          = << build(Preset_ALL[current_preset_idx + 1]).generator,
               build(Preset_ALL[current_preset_idx + 1]).effects,
               build(Preset_ALL[current_preset_idx + 1]).modulators >>
    /\ handled # None =>
          /\ handled[1].returned <=> handled[1].action = "Quit"
          /\ handled[1].action = "CycleNextPreset" =>
                /\ current_preset_idx = (handled[1].idx + 1) % 5
                /\ current_preset_idx = (handled[1].from + handled[1].run) % 5
                /\ handled[1].run = 5 => current_preset_idx = handled[1].from
          /\ handled[1].action = "Quit" =>
                /\ exiting
                /\ current_preset_idx = handled[1].idx
                /\ params = handled[1].store
                /\ last_gen_params = handled[1].cache

\* Five CycleNextPreset calls in a row, begun at the third preset, are back
\* at the third preset.
C30_Witness ==
    /\ handled # None
    /\ handled[1].action = "CycleNextPreset"
    /\ handled[1].run = 5
    /\ handled[1].from = 2
    /\ current_preset_idx = 2
    /\ built = Some("TrippyMandelbrot")

(***************************************************************************)
(* The drag of the pointer: App::on_cursor_moved, App::on_mouse_press and  *)
(* App::on_mouse_release, with positions in whole pixels.  The function    *)
(* that applies a BoxZoom to the view is not part of the sources, so what  *)
(* on_mouse_release returns is recorded and not applied.                   *)
(***************************************************************************)
\* The pointer positions of a drag: from (100, 100) the others are 4 px away
\* in x, 5 px away in both axes, and 2 px away in y.
DragPositions ==
    { << 100, 100 >>, << 104, 200 >>, << 105, 105 >>, << 300, 102 >> }

\* f64::abs
abs(x) == IF x < 0 THEN -x ELSE x

\* A mutant of on_mouse_release: a drag of 5 px in one axis is enough.
on_mouse_release_either_axis(start, cursor) ==
    IF start = None THEN [ drag_start |-> None, action |-> None ]
    ELSE LET dx_px == abs(cursor[1] - start[1][1])
             dy_px == abs(cursor[2] - start[1][2])
         IN  IF dx_px < 5 /\ dy_px < 5
             THEN [ drag_start |-> None, action |-> None ]
             ELSE [ drag_start |-> None,
                    action |-> Some(
                      [ type |-> "BoxZoom",
                        x1 |-> (start[1][1] * 1000) \div SurfaceWidth,
                        y1 |-> (start[1][2] * 1000) \div SurfaceHeight,
                        x2 |-> (cursor[1] * 1000) \div SurfaceWidth,
                        y2 |-> (cursor[2] * 1000) \div SurfaceHeight ]) ]

\* App::on_mouse_release: drag_start.take()?, then None for a drag under
\* 5 px in either axis, else the BoxZoom of the two corners; the result is
\* the new drag_start and the action returned.
on_mouse_release(start, cursor) ==
    IF start = None THEN [ drag_start |-> None, action |-> None ]
    ELSE LET dx_px == abs(cursor[1] - start[1][1])
             dy_px == abs(cursor[2] - start[1][2])
         IN  IF dx_px < 5 \/ dy_px < 5
             THEN [ drag_start |-> None, action |-> None ]
             ELSE [ drag_start |-> None,
                    action |-> Some(
                      [ type |-> "BoxZoom",
                        x1 |-> (start[1][1] * 1000) \div SurfaceWidth,
                        y1 |-> (start[1][2] * 1000) \div SurfaceHeight,
                        x2 |-> (cursor[1] * 1000) \div SurfaceWidth,
                        y2 |-> (cursor[2] * 1000) \div SurfaceHeight ]) ]

\* What neither button handler touches.
DragFrame ==
    UNCHANGED << patchVars, gpuVars, params, last_gen_params, ret, calls,
                 atCall, atPrevCall, ticks, dtSum, lastSet, everSet, steps,
                 before, applied, built, other, otherOps, current_preset_idx,
                 exiting, redraw, click, cursor_pos, handled >>

\* App::on_mouse_press
on_mouse_press ==
    /\ drag_start' = Some(cursor_pos)
    /\ op' = "press"
    /\ UNCHANGED released
    /\ DragFrame

\* The left button released: app.on_mouse_release()
MouseReleased ==
    /\ LET r == on_mouse_release(drag_start, cursor_pos)
       IN  /\ drag_start' = r.drag_start
           /\ released' = Some([ start |-> drag_start, cursor |-> cursor_pos,
                                 action |-> r.action, store |-> params ])
    /\ op' = "release"
    /\ DragFrame

NextDrag ==
    \/ \E pos \in DragPositions : on_cursor_moved(pos)
    \/ on_mouse_press
    \/ MouseReleased

SpecDrag == InitInput /\ [][NextDrag]_vars

\* The drag the last release ended spans at least 5 px in both axes.
DragSpans ==
    /\ released[1].start # None
    /\ abs(released[1].cursor[1] - released[1].start[1][1]) >= 5
    /\ abs(released[1].cursor[2] - released[1].start[1][2]) >= 5

\* C27: after a left-button release the drag state is clear; the release
\* returned a BoxZoom only if a press had set the drag state and the pointer
\* is at least 5 px from the press position in both axes; with no drag in
\* progress, or less than 5 px in either axis (the press position itself
\* included), it returned no action and the store is as it was.
C27_ReleaseClearsDrag ==
    op = "release" =>
        /\ drag_start = None
        /\ released[1].action # None =>
              /\ DragSpans
              /\ released[1].action[1].type = "BoxZoom"
        /\ ~DragSpans =>
              /\ released[1].action = None
              /\ params = released[1].store
        /\ (released[1].start # None
              /\ released[1].start[1] = released[1].cursor) =>
                 released[1].action = None

\* A press at (100, 100) and a release 200 px to the right and 2 px below:
\* no action.
C27_Witness ==
    /\ op = "release"
    /\ released[1].start = Some(<< 100, 100 >>)
    /\ released[1].cursor = << 300, 102 >>
    /\ released[1].action = None
    /\ params.mouse_x = 375

(***************************************************************************)
(* Presets loaded over a patch that was ticked, written to and asked       *)
(* whether it is dirty.                                                    *)
(***************************************************************************)
NextLoad ==
    \/ \E i \in DOMAIN Preset_ALL : LoadPreset(Preset_ALL[i])
    \/ CycleNextPreset
    \/ Reset
    \/ \E dt \in PairDt : Tick(dt)
    \/ GeneratorDirty
    \/ \E key \in PairKeys, value \in PairVals : Set(key, value)

SpecLoad == InitInput /\ [][NextLoad]_vars

\* The last operation was LoadPreset, CycleNextPreset or Reset.
PresetInstalled ==
    /\ op = "new"
    /\ handled # None
    /\ handled[1].action \in { "LoadPreset", "CycleNextPreset", "Reset" }

\* C26: right after LoadPreset, CycleNextPreset or Reset the store is the
\* selected preset's initial store (time 0, frame 0, the preset's view and
\* keys and no key of the patch before), the generator, effects and
\* modulators are the preset's, and the dirty cache is empty, so that the
\* first generator_dirty() of the new patch returns true; Reset leaves the
\* selection where it was.
C26_PresetReplacesPatch ==
    /\ PresetInstalled =>
          LET fresh == build(Preset_ALL[current_preset_idx + 1])
          IN  /\ params.time = 0
              /\ params.frame = 0
              /\ params.zoom = fresh.params.zoom
              /\ params.center_x = fresh.params.center_x
              /\ params.center_y = fresh.params.center_y
              /\ params.max_iter = fresh.params.max_iter
              /\ params.fields = fresh.params.fields
              /\ \A k \in DOMAIN handled[1].store.fields :
                    k \notin DOMAIN fresh.params.fields
                        => k \notin DOMAIN params.fields
              /\ << generator, effects, modulators >>
                     = << fresh.generator, fresh.effects, fresh.modulators >>
              /\ last_gen_params = None
              /\ handled[1].action = "Reset" =>
                    current_preset_idx = handled[1].idx
    /\ (op = "generator_dirty" /\ calls = 1) => ret = TRUE

\* Reset of the first preset after its patch was written a key the preset
\* does not have, ticked, and asked whether it is dirty.
C26_Witness ==
    /\ PresetInstalled
    /\ handled[1].action = "Reset"
    /\ built = Some("ClassicMandelbrot")
    /\ handled[1].store.time > 0
    /\ handled[1].store.frame > 0
    /\ "julia_cx" \in DOMAIN handled[1].store.fields
    /\ handled[1].cache # None
    /\ params.fields = NoFields

\* C25: in every frame that is recorded, the value a HueShift, Ripple or
\* BrightnessContrast pass carries is the store's value of the effect's key
\* after the frame's tick; the generator pass and every effect pass carry
\* the uniforms built from that same store; and the frame is recorded with
\* its generator pass whether or not generator_dirty() was ever called
\* (render does not call it).
C25_KindsResolvedAfterTick ==
    (op = "redraw" /\ redraw[1].submitted) =>
        /\ Len(encoder) = 1 + Len(effects)
        /\ encoder[1].stage = "gen"
        /\ calls = 0 /\ last_gen_params = None
        /\ \A i \in DOMAIN effects :
              LET e == effects[i]
                  k == encoder[i + 1].kind
              IN  /\ k.type = e.type
                  /\ e.type = "HueShift" => k.amount = get(params, e.key)
                  /\ e.type = "Ripple" =>
                        k.amplitude = get(params, e.amplitude_key)
                  /\ e.type = "BrightnessContrast" =>
                        k.brightness = get(params, e.brightness_key)
        /\ \A i \in DOMAIN encoder :
              /\ encoder[i].uniforms = Uniforms(params)
              /\ encoder[i].uniforms.time = params.time

\* The first frame of the Julia preset: the hue pass carries the value the
\* tick of this frame wrote (the preset starts at 0), and the uniforms the
\* time the tick reached.
C25_Witness ==
    /\ op = "redraw"
    /\ redraw[1].submitted
    /\ built = Some("PsychedelicJulia")
    /\ params.frame = 1
    /\ encoder[3].kind.amount = 6283
    /\ encoder[1].uniforms.time = 1

(***************************************************************************)
(* Patches given several modulators with add_modulator, as in the test     *)
(* add_modulator_appends of patch.rs; here two of them write one key (the  *)
(* constant writer of the tests is an oscillator of amplitude 0).          *)
(***************************************************************************)
OrderLists ==
    { << Lfo("julia_cx", 1, 0, 100), Lfo("julia_cx", 1, 0, 200) >>,
      << Lfo("hue_shift_amount", 1, 1000, 500),
         Lfo("hue_shift_amount", 1, 2000, 0),
         MouseModulator(Some("brightness_amount"), None) >>,
      << Lfo("ripple_amplitude", 1, 1000, 0),
         ModMatrix(<< Route(Lfo("julia_cy", 1, 1000, 0), "ripple_amplitude",
                            0, 1000) >>) >> }

OrderPatches ==
    { Patch("Mandelbrot", Params_default, << >>, ms) : ms \in OrderLists }

InitOrder ==
    /\ \E patch \in OrderPatches : InitFrom(patch)
    /\ InitGpu
    /\ InitOne
    /\ InitApp

NextOrder ==
    \/ \E dt \in DtVals : Tick(dt)
    \/ \E key \in SetKeys, value \in SetVals : Set(key, value)
    \/ \E pos \in MousePositions : on_cursor_moved(pos)

SpecOrder == InitOrder /\ [][NextOrder]_vars

\* No modulator after the i-th writes a key the i-th writes.
LastWriter(ms, i) ==
    \A j \in DOMAIN ms : j > i => ModTargets(ms[j]) \cap ModTargets(ms[i]) = {}

\* What a tick step does to the store, given the modulators of the patch.
TickInOrder ==
    LET ms == modulators
        t  == params'.time
    IN  /\ params'.frame = params.frame + 1
        /\ [params' EXCEPT !.fields = params.fields, !.time = params.time,
                           !.frame = params.frame] = params
        /\ \A k \in Keys \ AllTargets(ms, 1) :
              /\ get(params', k) = get(params, k)
              /\ k \in DOMAIN params'.fields <=> k \in DOMAIN params.fields
        /\ \A i \in DOMAIN ms :
              /\ (ms[i].type = "Lfo" /\ LastWriter(ms, i)) =>
                    get(params', ms[i].target) = LfoAt(ms[i], t)
              /\ (ms[i].type = "MouseModulator" /\ ms[i].target_x # None
                    /\ LastWriter(ms, i)) =>
                    get(params', ms[i].target_x[1]) = 2 * params.mouse_x - 1000
              /\ ( /\ i > 1
                   /\ ms[i].type = "ModMatrix"
                   /\ Len(ms[i].routes) = 1
                   /\ ms[i].routes[1].modulator.target # ms[i].routes[1].target
                   /\ ms[i - 1].type = "Lfo"
                   /\ ms[i - 1].target = ms[i].routes[1].target
                   /\ LastWriter(ms, i) ) =>
                    LET r    == ms[i].routes[1]
                        seen == LfoAt(ms[i - 1], t)
                    IN  get(params', r.target)
                            = r.min + (((seen * 500) \div 1000 + 500)
                                       * (r.max - r.min)) \div 1000

\* C28: one tick applies every modulator once to the store, in the order of
\* the list: a key two modulators write holds what the later one wrote; a
\* route that reads a key an earlier modulator wrote in this tick rescales
\* that value, once; and keys no modulator is configured to write, and the
\* view, are as they were.
C28_ModulatorsRunInListOrder ==
    [][ (op' = "tick" /\ ticks' = ticks + 1) => TickInOrder ]_vars

\* A tick of the patch whose two oscillators write the hue key: the key
\* holds the output of the second, which is not that of the first.
C28_Witness ==
    /\ op = "tick"
    /\ Len(modulators) = 3
    /\ modulators[1].target = modulators[2].target
    /\ get(params, modulators[2].target) = LfoAt(modulators[2], params.time)
    /\ LfoAt(modulators[2], params.time) # LfoAt(modulators[1], params.time)
    /\ params.mouse_x # 0
    /\ get(params, "brightness_amount") = 2 * params.mouse_x - 1000

====
